---- MODULE Spec2Model ----
(***************************************************************************)
(* Verification model of the metabolic-ninja design pipeline.              *)
(*                                                                         *)
(* The model covers the DesignJob record store, the RabbitMQ "jobs" queue  *)
(* with manual acknowledgement, the worker process (src/worker/main.py),   *)
(* the design workflow it runs in a thread per delivery                    *)
(* (metabolic_ninja/worker/tasks.py), the @task decorator that runs every  *)
(* stage in a child process (worker/decorators.py), and the Celery         *)
(* workflow of metabolic_ninja/tasks.py.                                   *)
(***************************************************************************)
EXTENDS Integers, Sequences, FiniteSets, TLC

(***************************************************************************)
(* Bounds of the model.                                                    *)
(***************************************************************************)
NumJobs == 1
MaxDeliveries == 2
MaxPathways == 2
MaxRows == 1

Jobs == 1..NumJobs
Tags == 1..MaxDeliveries

VARIABLES
    status,      \* DesignJob.status per job id ("ABSENT": no record yet)
    result,      \* DesignJob.result per job id (Null or the result payload)
    request,     \* position of the POST /predictions request of each job
    selector,    \* the (bigg, rhea) pair carried by the job's message
    queue,       \* state of the job's message in the RabbitMQ queue "jobs"
    chanOpen,    \* channel.is_open of the worker's channel
    unacked,     \* delivery tags delivered on the channel and not yet acked
    nextTag,     \* next delivery tag
    callbacks,   \* callbacks registered with connection.add_callback_threadsafe
    thread,      \* the design thread started for each delivery tag
    mails,       \* notification attempts per job, in order
    celery,      \* the Celery workflow of each job
    jobModel,    \* job.model as the orchestrator process holds it
    proc,        \* the process that runs optimizers on its own job.model
    evalRow,     \* the Design Result Row an evaluator has produced
    aggIn,       \* the rows handed to the aggregator
    aggOut,      \* what the aggregator made of them
    table,       \* the DesignJob table the read endpoints query
    response,    \* the response of the last read request
    fnIn,        \* the arguments a helper function is called with
    fnOut,       \* what the helper function returned or raised
    exo,         \* the run of identify_exotic_cofactors
    main         \* main() of the worker with several messages in the queue

coreVars == <<status, result, request, selector, queue, chanOpen, unacked,
              nextTag, callbacks, thread, mails, celery>>

designerVars == <<jobModel, proc>>

evalVars == <<evalRow>>

aggVars == <<aggIn, aggOut>>

apiVars == <<table, response>>

helperVars == <<fnIn, fnOut, exo>>

mainVars == <<main>>

auxVars ==
    <<designerVars, evalVars, aggVars, apiVars, helperVars, mainVars>>

vars == <<coreVars, auxVars>>

(***************************************************************************)
(* Values.                                                                 *)
(***************************************************************************)
Null == [null |-> TRUE]

DIFF_FVA == "PathwayPredictor+DifferentialFVA"
OPT_GENE == "PathwayPredictor+OptGene"
COFACTOR_SWAP == "PathwayPredictor+CofactorSwap"

Terminal == {"SUCCESS", "FAILURE", "REVOKED"}

UNIVERSAL_SOURCES == {<<TRUE, FALSE>>, <<TRUE, TRUE>>, <<FALSE, TRUE>>}

\* Objects of the reaction network, reduced to what the aggregation reads.
ProductReactionId == 0

Reaction(r) == [id |-> r, metabolites |-> {r, r + 1}]

PathwayReactions(p) == <<Reaction(p), Reaction(p + 1)>>

find_synthetic_reactions(p) == <<[id |-> ProductReactionId, metabolites |-> {}]>>

Ids(objects) == [i \in DOMAIN objects |-> objects[i].id]

Range(s) == {s[i] : i \in DOMAIN s}

\* One row as an evaluator returns it: object references, not ids.
EvaluatedRow(method, p) ==
    [method |-> method,
     heterologous_reactions |-> PathwayReactions(p),
     synthetic_reactions |-> find_synthetic_reactions(p)]

StageRows(method, p, n) == [i \in 1..n |-> EvaluatedRow(method, p)]

reaction_to_dict(reaction) == [id |-> reaction.id]

metabolite_to_dict(m) == [id |-> m]

ReactionById(rows, id) ==
    CHOOSE r \in UNION {Range(row.heterologous_reactions)
                          \cup Range(row.synthetic_reactions) : row \in Range(rows)} :
        r.id = id

\* row.get(key, []).
RowGet(row, key) == IF key \in DOMAIN row THEN row[key] ELSE <<>>

\* Mutant: the stored row loses its synthetic reactions.
StoredRow_heterologous(row) ==
    [method |-> row.method,
     knockouts |-> Ids(RowGet(row, "knockouts")),
     manipulations |-> <<>>,
     heterologous_reactions |-> Ids(row.heterologous_reactions),
     synthetic_reactions |-> <<>>,
     exotic_cofactors |-> RowGet(row, "exotic_cofactors")]

\* The row as stored: references replaced by ids (a metabolite is modelled
\* by its id).
StoredRow(row) ==
    [method |-> row.method,
     knockouts |-> Ids(RowGet(row, "knockouts")),
     manipulations |-> <<>>,
     heterologous_reactions |-> Ids(row.heterologous_reactions),
     synthetic_reactions |-> Ids(row.synthetic_reactions),
     exotic_cofactors |-> RowGet(row, "exotic_cofactors")]

\* Mutant: the synthetic reactions of a row are not interned.
row_reactions_heterologous(r) == Range(r.heterologous_reactions)

\* The reactions of a row that go into the reactions table.
row_reactions(r) ==
    Range(r.heterologous_reactions) \cup Range(r.synthetic_reactions)

\* _collect_results(results, reactions, metabolites, container): the three
\* updated values.
collect_results(rows, reactions, metabolites, container) ==
    LET het == UNION {Range(row.heterologous_reactions) : row \in Range(rows)}
        exotic == UNION {Range(RowGet(row, "exotic_cofactors")) :
                            row \in Range(rows)}
        rxnIds == {r.id : r \in UNION {row_reactions(row) : row \in Range(rows)}}
        metIds == UNION {r.metabolites : r \in het} \cup exotic
    IN  [reactions |->
             [k \in DOMAIN reactions \cup rxnIds |->
                 IF k \in rxnIds THEN reaction_to_dict(ReactionById(rows, k))
                 ELSE reactions[k]],
         metabolites |->
             [k \in DOMAIN metabolites \cup metIds |->
                 IF k \in metIds THEN metabolite_to_dict(k)
                 ELSE metabolites[k]],
         container |-> container \o [i \in DOMAIN rows |-> StoredRow(rows[i])]]

EmptyDict == [k \in {} |-> Null]

optimization_results(n) ==
    [diff_fva |-> <<>>, opt_gene |-> <<>>, cofactor_swap |-> <<>>,
     reactions |-> EmptyDict, metabolites |-> EmptyDict,
     target |-> IF n > 0 THEN "product" ELSE ""]

(***************************************************************************)
(* The design thread of one delivery.                                      *)
(***************************************************************************)
Stages == {"find_product", "find_pathways", "diff_fva", "cofactor_swap"}

NoValue == [n |-> 0, tx |-> "none"]

NoThread ==
    [pc |-> "unborn", job |-> 0, child |-> "none", fn |-> "none",
     retval |-> NoValue, pipe |-> NoValue, pathways |-> 0, index |-> 0,
     results |-> Null, exc |-> "none", acks |-> 0, started |-> {},
     completed |-> {}, degenerate |-> {}]

\* What a stage function can return: n counts the pathways or rows, tx says
\* whether the pickled value fits the buffer of the pipe.
StageCount(stage) ==
    CASE stage = "find_product" -> {1}
      [] stage = "find_pathways" -> 0..MaxPathways
      [] OTHER -> 0..MaxRows

StageValues(stage) == [n : StageCount(stage), tx : {"fits", "too_big"}]

AllStageValues == UNION {StageValues(stage) : stage \in Stages}


(***************************************************************************)
(* POST /predictions (PredictionJobsResource.post).                        *)
(***************************************************************************)
\* The record is committed with status PENDING before the lookups and the
\* submission. Job ids are handed out in order.
post_commit(j, sel) ==
    /\ request[j] = "none"
    /\ \A k \in Jobs : k < j => request[k] # "none"
    /\ request' = [request EXCEPT ![j] = "committed"]
    /\ status' = [status EXCEPT ![j] = "PENDING"]
    /\ result' = [result EXCEPT ![j] = Null]
    /\ selector' = [selector EXCEPT ![j] = sel]
    /\ UNCHANGED <<queue, chanOpen, unacked, nextTag, callbacks, thread,
                   mails, celery>>
    /\ UNCHANGED auxVars

\* response.raise_for_status() of the user or organism lookup raises.
post_lookup_fails(j) ==
    /\ request[j] = "committed"
    /\ request' = [request EXCEPT ![j] = "aborted"]
    /\ UNCHANGED <<status, result, selector, queue, chanOpen, unacked,
                   nextTag, callbacks, thread, mails, celery>>
    /\ UNCHANGED auxVars

\* submit_job(...): the job message enters the queue.
post_submit(j) ==
    /\ request[j] = "committed"
    /\ request' = [request EXCEPT ![j] = "submitted"]
    /\ queue' = [queue EXCEPT ![j] = "ready"]
    /\ UNCHANGED <<status, result, selector, chanOpen, unacked, nextTag,
                   callbacks, thread, mails, celery>>
    /\ UNCHANGED auxVars

(***************************************************************************)
(* The worker process (worker/main.py).                                    *)
(***************************************************************************)
PrefetchCount == 1

\* on_message: RabbitMQ delivers a ready message to the consumer, within the
\* prefetch window, and the callback starts a design thread for it.
on_message(j) ==
    /\ chanOpen
    /\ queue[j] = "ready"
    /\ Cardinality(unacked) < PrefetchCount
    /\ nextTag <= MaxDeliveries
    /\ queue' = [queue EXCEPT ![j] = "unacked"]
    /\ unacked' = unacked \cup {nextTag}
    /\ thread' = [thread EXCEPT ![nextTag] =
                      [NoThread EXCEPT !.pc = "deserialize", !.job = j]]
    /\ nextTag' = nextTag + 1
    /\ UNCHANGED <<status, result, request, selector, chanOpen, callbacks,
                   mails, celery>>
    /\ UNCHANGED auxVars

\* basic_ack on the broker's side.
basic_ack(tag) ==
    [j \in Jobs |-> IF queue[j] = "unacked" /\ tag \in unacked
                       /\ thread[tag].job = j
                    THEN "acked" ELSE queue[j]]

\* ack_message, run by the connection's i/o loop for a registered callback.
ack_message ==
    /\ callbacks # <<>>
    /\ LET tag == Head(callbacks) IN
          IF chanOpen
          THEN /\ queue' = basic_ack(tag)
               /\ unacked' = unacked \ {tag}
          ELSE UNCHANGED <<queue, unacked>>
    /\ callbacks' = Tail(callbacks)
    /\ UNCHANGED <<status, result, request, selector, chanOpen, nextTag,
                   thread, mails, celery>>
    /\ UNCHANGED auxVars

\* The channel closes (connection lost): RabbitMQ requeues what was unacked.
connection_lost ==
    /\ chanOpen
    /\ chanOpen' = FALSE
    /\ queue' = [j \in Jobs |-> IF queue[j] = "unacked" THEN "ready" ELSE queue[j]]
    /\ unacked' = {}
    /\ UNCHANGED <<status, result, request, selector, nextTag, callbacks,
                   thread, mails, celery>>
    /\ UNCHANGED auxVars

ThreadOver(t) == thread[t].pc \in {"unborn", "ended", "crashed"}

\* main() exits once its threads are over and the environment restarts the
\* process, with a new connection and no registered callbacks.
worker_restart ==
    /\ ~chanOpen
    /\ \A t \in Tags : ThreadOver(t)
    /\ chanOpen' = TRUE
    /\ callbacks' = <<>>
    /\ UNCHANGED <<status, result, request, selector, queue, unacked, nextTag,
                   thread, mails, celery>>
    /\ UNCHANGED auxVars

(***************************************************************************)
(* Job.save: sets the columns given as keyword arguments, nothing else.     *)
(***************************************************************************)
save_status(j, value) == [status EXCEPT ![j] = value]

save_result(j, value) == [result EXCEPT ![j] = value]

(***************************************************************************)
(* design() of metabolic_ninja/worker/tasks.py, step by step.              *)
(***************************************************************************)
\* Job.deserialize (outside the try block), then job.save(status="STARTED").
design_begin(t) ==
    /\ thread[t].pc = "deserialize"
    /\ LET j == thread[t].job IN
          IF selector[j] \in UNIVERSAL_SOURCES
          THEN /\ status' = save_status(j, "STARTED")
               /\ thread' = [thread EXCEPT ![t].pc = "find_product"]
          ELSE /\ thread' = [thread EXCEPT ![t].pc = "crashed",
                                           ![t].exc = "KeyError"]
               /\ UNCHANGED status
    /\ UNCHANGED <<result, request, selector, queue, chanOpen, unacked,
                   nextTag, callbacks, mails, celery>>
    /\ UNCHANGED auxVars

\* wrapper of @task: process.start().
wrapper_start(t) ==
    /\ thread[t].pc \in Stages
    /\ thread[t].child = "none"
    /\ thread' = [thread EXCEPT
           ![t].child = "running",
           ![t].fn = "none",
           ![t].started = @ \cup {<<thread[t].pc, thread[t].index>>}]
    /\ UNCHANGED <<status, result, request, selector, queue, chanOpen,
                   unacked, nextTag, callbacks, mails, celery>>
    /\ UNCHANGED auxVars

\* runner of @task, the wrapped function raises: sys.exit(-1).
runner_raise(t) ==
    /\ thread[t].child = "running"
    /\ thread' = [thread EXCEPT ![t].fn = "raised", ![t].child = "exit_err"]
    /\ UNCHANGED <<status, result, request, selector, queue, chanOpen,
                   unacked, nextTag, callbacks, mails, celery>>
    /\ UNCHANGED auxVars

\* State of the child after it called pipe.send(retval): it has written the
\* value and exited, or, the value being larger than the pipe's buffer, it
\* is blocked in the write until the parent reads.
pipe_send(v) == IF v.tx = "fits" THEN "exit_ok" ELSE "blocked"

\* runner of @task, the wrapped function returns v: pipe.send(v).
runner_return(t, v) ==
    /\ thread[t].child = "running"
    /\ v \in StageValues(thread[t].pc)
    /\ thread' = [thread EXCEPT
           ![t].fn = "returned",
           ![t].retval = v,
           ![t].child = pipe_send(v),
           ![t].pipe = IF pipe_send(v) = "exit_ok" THEN v ELSE NoValue]
    /\ UNCHANGED <<status, result, request, selector, queue, chanOpen,
                   unacked, nextTag, callbacks, mails, celery>>
    /\ UNCHANGED auxVars

\* Mutant: the ZeroDivisionError of the surface scan is not caught.
diff_fva_designs_raises(scan) ==
    IF scan = "ZeroDivisionError" THEN "raised" ELSE "designs"

\* differential_fva_optimization: the designs of predictor.run, or None when
\* it raises ZeroDivisionError (logged as a warning).
diff_fva_designs(scan) ==
    IF scan = "ZeroDivisionError" THEN "None" ELSE "designs"

\* evaluate_diff_fva: no rows for designs that are None, else the rows of
\* the n surface points evaluated.
evaluate_diff_fva_rows(designs, n) == IF designs = "None" THEN 0 ELSE n

\* runner of @task for the stage diff_fva when the surface scan of the
\* pathway is degenerate: predictor.run raises ZeroDivisionError.
runner_diff_fva_degenerate(t) ==
    /\ thread[t].child = "running"
    /\ thread[t].pc = "diff_fva"
    /\ LET designs == diff_fva_designs("ZeroDivisionError")
           v == [n |-> evaluate_diff_fva_rows(designs, MaxRows), tx |-> "fits"]
       IN  IF designs = "raised"
           THEN thread' = [thread EXCEPT
                    ![t].fn = "raised",
                    ![t].child = "exit_err",
                    ![t].degenerate = @ \cup {thread[t].index}]
           ELSE thread' = [thread EXCEPT
                    ![t].fn = "returned",
                    ![t].retval = v,
                    ![t].child = pipe_send(v),
                    ![t].pipe = v,
                    ![t].degenerate = @ \cup {thread[t].index}]
    /\ UNCHANGED <<status, result, request, selector, queue, chanOpen,
                   unacked, nextTag, callbacks, mails, celery>>
    /\ UNCHANGED auxVars

\* The optimization_results of design() after _collect_results has taken
\* the rows a stage returned into the stage's bucket.
collected(th, v) ==
    LET method == IF th.pc = "diff_fva" THEN DIFF_FVA ELSE COFACTOR_SWAP
        bucket == IF th.pc = "diff_fva" THEN th.results.diff_fva
                  ELSE th.results.cofactor_swap
        c == collect_results(StageRows(method, th.index, v.n),
                 th.results.reactions, th.results.metabolites, bucket)
        r == [th.results EXCEPT !.reactions = c.reactions,
                                !.metabolites = c.metabolites]
    IN  IF th.pc = "diff_fva" THEN [r EXCEPT !.diff_fva = c.container]
        ELSE [r EXCEPT !.cofactor_swap = c.container]

\* Mutant: the pathway loop ends one pathway early.
after_stage_leaves_early(th, v) ==
    CASE th.pc = "find_product" ->
            [th EXCEPT !.pc = "find_pathways"]
      [] th.pc = "find_pathways" ->
            [th EXCEPT !.pathways = v.n,
                       !.index = 1,
                       !.results = optimization_results(v.n),
                       !.pc = IF v.n <= 1 THEN "save_success" ELSE "diff_fva"]
      [] th.pc = "diff_fva" ->
            [th EXCEPT !.results = collected(th, v), !.pc = "cofactor_swap"]
      [] th.pc = "cofactor_swap" ->
            [th EXCEPT !.results = collected(th, v),
                       !.index = @ + 1,
                       !.pc = IF th.index + 1 >= th.pathways
                              THEN "save_success" ELSE "diff_fva"]

\* Mutant: the pathway loop is entered although no pathway was found.
after_stage_runs_empty(th, v) ==
    CASE th.pc = "find_product" ->
            [th EXCEPT !.pc = "find_pathways"]
      [] th.pc = "find_pathways" ->
            [th EXCEPT !.pathways = v.n,
                       !.index = 1,
                       !.results = optimization_results(v.n),
                       !.pc = "diff_fva"]
      [] th.pc = "diff_fva" ->
            [th EXCEPT !.results = collected(th, v), !.pc = "cofactor_swap"]
      [] th.pc = "cofactor_swap" ->
            [th EXCEPT !.results = collected(th, v),
                       !.index = @ + 1,
                       !.pc = IF th.index + 1 > th.pathways
                              THEN "save_success" ELSE "diff_fva"]

\* The body of design() after a stage returned v: the pathway loop runs
\* diff_fva, then cofactor_swap, for each pathway in turn.
after_stage(th, v) ==
    CASE th.pc = "find_product" ->
            [th EXCEPT !.pc = "find_pathways"]
      [] th.pc = "find_pathways" ->
            [th EXCEPT !.pathways = v.n,
                       !.index = 1,
                       !.results = optimization_results(v.n),
                       !.pc = IF v.n = 0 THEN "save_success" ELSE "diff_fva"]
      [] th.pc = "diff_fva" ->
            [th EXCEPT !.results = collected(th, v), !.pc = "cofactor_swap"]
      [] th.pc = "cofactor_swap" ->
            [th EXCEPT !.results = collected(th, v),
                       !.index = @ + 1,
                       !.pc = IF th.index + 1 > th.pathways
                              THEN "save_success" ELSE "diff_fva"]

\* Mutant: the failure is swallowed inside the loop and the stage after the
\* failed one is started.
on_task_failed_continues(th) ==
    [th EXCEPT !.exc = "TaskFailedException",
               !.pc = IF th.pc = "diff_fva" THEN "cofactor_swap" ELSE "finally"]

\* The except clause of design(): TaskFailedException ends the workflow.
on_task_failed(th) == [th EXCEPT !.exc = "TaskFailedException", !.pc = "finally"]

\* wrapper of @task after process.join(): the exit code, then pipe_in.recv().
wrapper_join(t) ==
    /\ thread[t].child \in {"exit_ok", "exit_err"}
    /\ LET th == [thread[t] EXCEPT !.child = "none", !.pipe = NoValue] IN
          IF thread[t].child # "exit_ok"
          THEN thread' = [thread EXCEPT ![t] = on_task_failed(th)]
          ELSE thread' = [thread EXCEPT ![t] =
                   after_stage([th EXCEPT !.completed =
                                    @ \cup {<<th.pc, th.index, thread[t].pipe.n>>}],
                               thread[t].pipe)]
    /\ UNCHANGED <<status, result, request, selector, queue, chanOpen,
                   unacked, nextTag, callbacks, mails, celery>>
    /\ UNCHANGED auxVars

\* job.save(status="SUCCESS", result=optimization_results).
design_save_success(t) ==
    /\ thread[t].pc = "save_success"
    /\ status' = save_status(thread[t].job, "SUCCESS")
    /\ result' = save_result(thread[t].job, thread[t].results)
    /\ thread' = [thread EXCEPT ![t].pc = "notify"]
    /\ UNCHANGED <<request, selector, queue, chanOpen, unacked, nextTag,
                   callbacks, mails, celery>>
    /\ UNCHANGED auxVars

\* _notify(job): the mail is sent, or an exception is caught and logged.
design_notify(t, outcome) ==
    /\ thread[t].pc = "notify"
    /\ mails' = [mails EXCEPT ![thread[t].job] = Append(@, outcome)]
    /\ thread' = [thread EXCEPT ![t].pc = "finally"]
    /\ UNCHANGED <<status, result, request, selector, queue, chanOpen,
                   unacked, nextTag, callbacks, celery>>
    /\ UNCHANGED auxVars

\* The finally clause: connection.add_callback_threadsafe(ack_message ...),
\* after which design() returns and its locals are gone.
design_finally(t) ==
    /\ thread[t].pc = "finally"
    /\ callbacks' = Append(callbacks, t)
    /\ thread' = [thread EXCEPT ![t] =
                      [NoThread EXCEPT !.pc = "ended",
                                       !.job = thread[t].job,
                                       !.exc = thread[t].exc,
                                       !.acks = thread[t].acks + 1]]
    /\ UNCHANGED <<status, result, request, selector, queue, chanOpen,
                   unacked, nextTag, mails, celery>>
    /\ UNCHANGED auxVars


(***************************************************************************)
(* The Celery workflow of metabolic_ninja/tasks.py.                        *)
(***************************************************************************)
Members == 1..MaxPathways

NoWorkflow ==
    [pc |-> "none", pathways |-> 0,
     member |-> [p \in Members |-> "none"],
     rows |-> [p \in Members |-> 0],
     payload |-> Null, errbacks |-> 0, failed |-> FALSE]

\* A client enqueues predict for the committed record.
predict_delay(j) ==
    /\ request[j] = "committed"
    /\ request' = [request EXCEPT ![j] = "celery"]
    /\ celery' = [celery EXCEPT ![j].pc = "predict"]
    /\ UNCHANGED <<status, result, selector, queue, chanOpen, unacked,
                   nextTag, callbacks, thread, mails>>
    /\ UNCHANGED auxVars

\* predict: the record is set to STARTED, then the universal database is
\* looked up and the task replaces itself by the chain with its errback.
predict(j) ==
    /\ celery[j].pc = "predict"
    /\ status' = [status EXCEPT ![j] = "STARTED"]
    /\ celery' = [celery EXCEPT ![j].pc =
                      IF selector[j] \in UNIVERSAL_SOURCES
                      THEN "find_product" ELSE "predict_failed"]
    /\ UNCHANGED <<result, request, selector, queue, chanOpen, unacked,
                   nextTag, callbacks, thread, mails>>
    /\ UNCHANGED auxVars

\* A task of the chain raised: the chain stops and the errback
\* fail_workflow.s(job_id) is called.
chain_error(wf) == [wf EXCEPT !.failed = TRUE, !.errbacks = @ + 1]

celery_find_product(j, ok) ==
    /\ celery[j].pc = "find_product"
    /\ celery' = [celery EXCEPT ![j] =
                      IF ok THEN [@ EXCEPT !.pc = "find_pathways"]
                      ELSE chain_error([@ EXCEPT !.pc = "failed"])]
    /\ UNCHANGED <<status, result, request, selector, queue, chanOpen,
                   unacked, nextTag, callbacks, thread, mails>>
    /\ UNCHANGED auxVars

celery_find_pathways(j, ok, n) ==
    /\ celery[j].pc = "find_pathways"
    /\ celery' = [celery EXCEPT ![j] =
                      IF ok THEN [@ EXCEPT !.pc = "optimize", !.pathways = n]
                      ELSE chain_error([@ EXCEPT !.pc = "failed"])]
    /\ UNCHANGED <<status, result, request, selector, queue, chanOpen,
                   unacked, nextTag, callbacks, thread, mails>>
    /\ UNCHANGED auxVars

\* optimize replaces itself by one group member per pathway, each the chain
\* cofactor_swap_optimization | evaluate_cofactor_swap.
optimize(j) ==
    /\ celery[j].pc = "optimize"
    /\ celery' = [celery EXCEPT
           ![j].pc = "group",
           ![j].member = [p \in Members |->
                             IF p <= celery[j].pathways THEN "optimization"
                             ELSE "none"]]
    /\ UNCHANGED <<status, result, request, selector, queue, chanOpen,
                   unacked, nextTag, callbacks, thread, mails>>
    /\ UNCHANGED auxVars

celery_cofactor_swap_optimization(j, p, ok) ==
    /\ celery[j].pc = "group"
    /\ celery[j].member[p] = "optimization"
    /\ celery' = [celery EXCEPT ![j] =
                      IF ok THEN [@ EXCEPT !.member[p] = "evaluate"]
                      ELSE chain_error([@ EXCEPT !.member[p] = "failed"])]
    /\ UNCHANGED <<status, result, request, selector, queue, chanOpen,
                   unacked, nextTag, callbacks, thread, mails>>
    /\ UNCHANGED auxVars

celery_evaluate_cofactor_swap(j, p, ok, n) ==
    /\ celery[j].pc = "group"
    /\ celery[j].member[p] = "evaluate"
    /\ celery' = [celery EXCEPT ![j] =
                      IF ok THEN [@ EXCEPT !.member[p] = "done", !.rows[p] = n]
                      ELSE chain_error([@ EXCEPT !.member[p] = "failed"])]
    /\ UNCHANGED <<status, result, request, selector, queue, chanOpen,
                   unacked, nextTag, callbacks, thread, mails>>
    /\ UNCHANGED auxVars

\* The group's results are handed on once every member has returned.
group_complete(wf) ==
    \A p \in Members : p <= wf.pathways => wf.member[p] = "done"

RECURSIVE Flatten(_)
Flatten(lists) ==
    IF lists = <<>> THEN <<>> ELSE Head(lists) \o Flatten(Tail(lists))

KnownMethod(row) == row.method \in {DIFF_FVA, COFACTOR_SWAP, OPT_GENE}

\* Mutant: the method tag is not looked at when a row is appended.
rows_of_any_method(container, m) == container

\* The rows concatenate appends to the list of method m.
rows_of_method(container, m) ==
    SelectSeq(container, LAMBDA r : r.method = m)

\* concatenate(results): the payload, or ValueError for an unknown method.
concatenate(results) ==
    LET rows == Flatten(results)
        c == collect_results(rows, EmptyDict, EmptyDict, <<>>)
    IN  IF \E i \in DOMAIN rows : ~KnownMethod(rows[i])
        THEN [error |-> "ValueError"]
        ELSE [diff_fva |-> rows_of_method(c.container, DIFF_FVA),
              cofactor_swap |-> rows_of_method(c.container, COFACTOR_SWAP),
              opt_gene |-> rows_of_method(c.container, OPT_GENE),
              reactions |-> c.reactions,
              metabolites |-> c.metabolites]

GroupResults(wf) ==
    [p \in 1..wf.pathways |-> StageRows(COFACTOR_SWAP, p, wf.rows[p])]

celery_concatenate(j) ==
    /\ celery[j].pc = "group"
    /\ group_complete(celery[j])
    /\ LET payload == concatenate(GroupResults(celery[j])) IN
          celery' = [celery EXCEPT ![j] =
              IF payload = [error |-> "ValueError"]
              THEN chain_error([@ EXCEPT !.pc = "failed"])
              ELSE [@ EXCEPT !.pc = "persist", !.payload = payload]]
    /\ UNCHANGED <<status, result, request, selector, queue, chanOpen,
                   unacked, nextTag, callbacks, thread, mails>>
    /\ UNCHANGED auxVars

\* persist(result, job_id).
persist(j) ==
    /\ celery[j].pc = "persist"
    /\ status' = [status EXCEPT ![j] = "SUCCESS"]
    /\ result' = [result EXCEPT ![j] = celery[j].payload]
    /\ celery' = [celery EXCEPT ![j].pc = "notify"]
    /\ UNCHANGED <<request, selector, queue, chanOpen, unacked, nextTag,
                   callbacks, thread, mails>>
    /\ UNCHANGED auxVars

\* Mutant: an exception of the mail client is not caught, so the task fails
\* and the chain's errback is called.
after_notify_propagates(wf, outcome) ==
    IF outcome = "raised" THEN chain_error([wf EXCEPT !.pc = "failed"])
    ELSE [wf EXCEPT !.pc = "done"]

\* notify(...): the mail is sent, or an exception is caught and logged; the
\* task returns normally either way.
after_notify(wf, outcome) == [wf EXCEPT !.pc = "done"]

notify(j, outcome) ==
    /\ celery[j].pc = "notify"
    /\ mails' = [mails EXCEPT ![j] = Append(@, outcome)]
    /\ celery' = [celery EXCEPT ![j] = after_notify(@, outcome)]
    /\ UNCHANGED <<status, result, request, selector, queue, chanOpen,
                   unacked, nextTag, callbacks, thread>>
    /\ UNCHANGED auxVars

\* Mutant: the errback also stores an error payload as the result.
fail_workflow_stores_result(j) ==
    /\ celery[j].errbacks > 0
    /\ status' = [status EXCEPT ![j] = "FAILURE"]
    /\ result' = [result EXCEPT ![j] = [error |-> "failed"]]
    /\ celery' = [celery EXCEPT ![j].errbacks = @ - 1]
    /\ UNCHANGED <<request, selector, queue, chanOpen, unacked,
                   nextTag, callbacks, thread, mails>>
    /\ UNCHANGED auxVars

\* fail_workflow(request, exc, traceback, job_id), the errback.
fail_workflow(j) ==
    /\ celery[j].errbacks > 0
    /\ status' = [status EXCEPT ![j] = "FAILURE"]
    /\ celery' = [celery EXCEPT ![j].errbacks = @ - 1]
    /\ UNCHANGED <<result, request, selector, queue, chanOpen, unacked,
                   nextTag, callbacks, thread, mails>>
    /\ UNCHANGED auxVars

(***************************************************************************)
(* The optimizers and the host model (worker/designer.py), run by the      *)
(* stage functions in a process of their own (worker/decorators.py).       *)
(***************************************************************************)
Pathways == 1..MaxPathways

Optimizers == {"differential_fva_optimization", "opt_gene",
               "cofactor_swap_optimization"}

\* job.model as Job.deserialize builds it: no heterologous reaction, the
\* bounds and the objective of the stored model.
DeserializedModel ==
    [reactions |-> {}, biomass_bound |-> "stored", objective |-> "stored"]

\* pathway.apply(model): the pathway's reactions are added to the model.
pathway_apply(p, m) == [m EXCEPT !.reactions = @ \cup {p}]

\* "with model:": what was changed inside the context is undone when the
\* context is left, so the model is the one that entered it.
with_model(entered, inside) == entered

differential_fva_optimization(p, m) == with_model(m, pathway_apply(p, m))

opt_gene(p, m) == with_model(m, pathway_apply(p, m))

\* cofactor_swap_optimization: only the growth computation and the
\* predictor run are inside a context.
cofactor_swap_optimization(p, m) ==
    LET grown == with_model(m, [m EXCEPT !.objective = "biomass"])
        bounded == [grown EXCEPT !.biomass_bound = "growth_fraction"]
        applied == pathway_apply(p, bounded)
        aimed == [applied EXCEPT !.objective = "product"]
    IN  with_model(aimed, aimed)

Optimized(fn, p, m) ==
    CASE fn = "differential_fva_optimization" -> differential_fva_optimization(p, m)
      [] fn = "opt_gene" -> opt_gene(p, m)
      [] fn = "cofactor_swap_optimization" -> cofactor_swap_optimization(p, m)

NoProc ==
    [pc |-> "none", model |-> DeserializedModel, before |-> DeserializedModel,
     fn |-> "none", pathway |-> 0, rows |-> 0,
     lastExit |-> "none", lastModel |-> DeserializedModel]

\* process.start(): the new process works on its own copy of the arguments,
\* job.model among them.
process_start ==
    /\ proc.pc = "none"
    /\ proc' = [proc EXCEPT !.pc = "running", !.model = jobModel,
                            !.before = jobModel]
    /\ UNCHANGED <<jobModel, coreVars, mainVars, helperVars, evalVars, aggVars, apiVars>>

\* The stage function calls an optimizer on its job.model.
call_optimizer(fn, p) ==
    /\ proc.pc \in {"running", "evaluated"}
    /\ proc' = [proc EXCEPT !.pc = "optimized", !.fn = fn, !.pathway = p,
                            !.rows = 0,
                            !.before = proc.model,
                            !.model = Optimized(fn, p, proc.model)]
    /\ UNCHANGED <<jobModel, coreVars, mainVars, helperVars, evalVars, aggVars, apiVars>>

\* The evaluator that follows the optimizer: evaluate_diff_fva and
\* evaluate_opt_gene work inside a context, evaluate_cofactor_swap on a copy.
call_evaluator(n) ==
    /\ proc.pc = "optimized"
    /\ proc' = [proc EXCEPT !.pc = "evaluated", !.rows = n]
    /\ UNCHANGED <<jobModel, coreVars, mainVars, helperVars, evalVars, aggVars, apiVars>>

\* An exception in the stage function: runner logs it and exits with -1.
process_crash ==
    /\ proc.pc \in {"running", "optimized", "evaluated"}
    /\ proc' = [proc EXCEPT !.pc = "crashed"]
    /\ UNCHANGED <<jobModel, coreVars, mainVars, helperVars, evalVars, aggVars, apiVars>>

\* Mutant: the stage ran on the orchestrator's own model object.
after_join_shared(parent, child) == child

\* The orchestrator's job.model after process.join(): the child had its
\* own address space, so nothing it did to its model is seen here.
after_join(parent, child) == parent

\* process.join() in the wrapper.
process_join ==
    /\ proc.pc \in {"evaluated", "crashed"}
    /\ jobModel' = after_join(jobModel, proc.model)
    /\ proc' = [NoProc EXCEPT !.lastExit = proc.pc, !.lastModel = proc.model]
    /\ UNCHANGED <<coreVars, mainVars, helperVars, evalVars, aggVars, apiVars>>

(***************************************************************************)
(* The evaluators and the four metrics of a Design Result Row              *)
(* (metabolic_ninja/evaluate.py, evaluate_* of tasks.py and designer.py).  *)
(***************************************************************************)
\* A float as the solver or a yield function hands it back.
Floats == {"finite", "nan", "inf"}

\* Python's None as the value of a metric.
None == "None"

isnan(x) == x = "nan"

\* What the calls made by evaluate_production can do: model.optimize()
\* raises OptimizationError or gives the production flux, the flux yield
\* function raises ZeroDivisionError or gives a float, total_yield gives a
\* float (not-a-number for a degenerate ratio).
ProductionRuns ==
    [solution : Floats \cup {"OptimizationError"},
     flux_yield : Floats \cup {"ZeroDivisionError"},
     carbon_yield : Floats,
     mass_yield : Floats]

\* evaluate_production: (flux, flux yield, carbon yield, mass yield).
evaluate_production(run) ==
    IF run.solution = "OptimizationError"
    THEN <<None, None, None, None>>
    ELSE <<run.solution,
           IF run.flux_yield = "ZeroDivisionError" THEN None ELSE run.flux_yield,
           IF isnan(run.carbon_yield) THEN None ELSE run.carbon_yield,
           IF isnan(run.mass_yield) THEN None ELSE run.mass_yield>>

\* What the calls made by evaluate_biomass_coupled_production can do: pfba
\* raises OptimizationError or gives the growth rate, each of the two
\* coupled yield functions raises ZeroDivisionError or gives a float.
CoupledRuns ==
    [solution : Floats \cup {"OptimizationError"},
     bpcy : Floats \cup {"ZeroDivisionError"},
     bpcmy : Floats \cup {"ZeroDivisionError"}]

\* evaluate_biomass_coupled_production: (growth, coupled yield, coupled
\* minimal yield).
evaluate_biomass_coupled_production(run) ==
    IF run.solution = "OptimizationError"
    THEN <<None, None, None>>
    ELSE IF run.bpcy = "ZeroDivisionError" \/ run.bpcmy = "ZeroDivisionError"
         THEN <<run.solution, None, None>>
         ELSE <<run.solution, run.bpcy, run.bpcmy>>

\* The row evaluate_cofactor_swap appends for one design. The field caught
\* tells whether a solver error or a division by zero was caught while the
\* four metrics were computed.
cofactor_swap_row(production, coupled) ==
    LET p == evaluate_production(production)
        c == evaluate_biomass_coupled_production(coupled)
    IN  [method |-> COFACTOR_SWAP,
         fitness |-> c[2], yield |-> p[3], product |-> p[1], biomass |-> c[1],
         caught |-> \/ production.solution = "OptimizationError"
                    \/ coupled.solution = "OptimizationError"
                    \/ coupled.bpcy = "ZeroDivisionError"
                    \/ coupled.bpcmy = "ZeroDivisionError"]

\* What the try block of evaluate_opt_gene can do: an OptimizationError or a
\* ZeroDivisionError is raised somewhere in it, or the four values are
\* computed.
OptGeneRuns ==
    [raised : {"none", "OptimizationError", "ZeroDivisionError"},
     p_yield : Floats, bpc_yield : Floats, target_flux : Floats,
     biomass : Floats]

NanToNone(x) == IF isnan(x) THEN None ELSE x

\* The row evaluate_opt_gene appends for one design.
opt_gene_row(run) ==
    IF run.raised # "none"
    THEN [method |-> OPT_GENE, fitness |-> None, yield |-> None,
          product |-> None, biomass |-> None, caught |-> TRUE]
    ELSE [method |-> OPT_GENE,
          fitness |-> NanToNone(run.bpc_yield),
          yield |-> NanToNone(run.p_yield),
          product |-> NanToNone(run.target_flux),
          biomass |-> NanToNone(run.biomass),
          caught |-> FALSE]

\* The row evaluate_diff_fva of tasks.py appends for one surface point: the
\* evaluation is commented out and the four metrics are None.
diff_fva_row ==
    [method |-> DIFF_FVA, fitness |-> None, yield |-> None, product |-> None,
     biomass |-> None, caught |-> FALSE]

evaluate_cofactor_swap(production, coupled) ==
    /\ evalRow' = cofactor_swap_row(production, coupled)
    /\ UNCHANGED <<coreVars, mainVars, helperVars, designerVars, aggVars, apiVars>>

evaluate_opt_gene(run) ==
    /\ evalRow' = opt_gene_row(run)
    /\ UNCHANGED <<coreVars, mainVars, helperVars, designerVars, aggVars, apiVars>>

evaluate_diff_fva ==
    /\ evalRow' = diff_fva_row
    /\ UNCHANGED <<coreVars, mainVars, helperVars, designerVars, aggVars, apiVars>>

\* The surface points of a differential FVA and their targets. A target is a
\* knockout, a flux modulation with a negative, zero or positive fold
\* change, or a flux inversion.
MaxDesigns == 3

DesignTargets ==
    {[kind |-> "knockout", fold |-> "none"],
     [kind |-> "inversion", fold |-> "zero"]}
        \cup {[kind |-> "modulation", fold |-> f] : f \in {"neg", "zero", "pos"}}

DesignLists ==
    UNION {[1..n -> {t \in SUBSET DesignTargets : Cardinality(t) <= 1}] :
              n \in 0..MaxDesigns}

\* manipulation_helper of the worker (version "worker") and of tasks.py
\* (version "celery"): the direction of the target, or ValueError.
manipulation_helper(target, version) ==
    IF version = "worker" /\ target.kind = "inversion" THEN "invert"
    ELSE IF target.fold = "pos" THEN "up"
    ELSE IF target.fold = "neg" THEN "down"
    ELSE "ValueError"

\* Mutant: every design is evaluated, the last one too.
designs_all(designs) == designs

\* designs[:-1]
designs_but_last(designs) == SubSeq(designs, 1, Len(designs) - 1)

\* The id of the reaction a target is on: targets that differ are on
\* different reactions.
target_id(t) == <<t.kind, t.fold>>

\* The keys of get_target_data(model, table, targets, knockout).
get_target_data(targets) == {target_id(t) : t \in targets}

\* The keys of the dictionary reaction_targets once the loop is over. The
\* worker creates it once, before the loop, updates it with the targets of
\* each design and puts the same object in every row.
reaction_targets(evaluated) ==
    UNION {get_target_data(evaluated[i]) : i \in DOMAIN evaluated}

\* evaluate_diff_fva: no rows for designs that are None; else one row for
\* each design of the slice, with its knockouts and its manipulations,
\* unless manipulation_helper raises for one of them. The rows of the worker
\* have the key "targets", those of tasks.py do not.
evaluate_diff_fva_results(found, designs, version) ==
    IF found = "None" THEN [raised |-> "none", rows |-> <<>>]
    ELSE LET evaluated == designs_but_last(designs)
             knockouts(d) == {t \in d : t.kind = "knockout"}
             manipulations(d) ==
                 {manipulation_helper(t, version) : t \in d \ knockouts(d)}
             row(i) == [method |-> DIFF_FVA,
                        knockouts |-> knockouts(evaluated[i]),
                        manipulations |-> manipulations(evaluated[i])]
         IN  IF \E i \in DOMAIN evaluated :
                    "ValueError" \in manipulations(evaluated[i])
             THEN [raised |-> "ValueError", rows |-> <<>>]
             ELSE [raised |-> "none",
                   rows |-> [i \in DOMAIN evaluated |->
                                IF version = "worker"
                                THEN [method |-> row(i).method,
                                      knockouts |-> row(i).knockouts,
                                      manipulations |-> row(i).manipulations,
                                      targets |-> reaction_targets(evaluated)]
                                ELSE row(i)]]

\* A call of evaluate_diff_fva on the designs of a surface scan.
call_evaluate_diff_fva ==
    /\ fnIn # Null
    /\ fnIn.fn = "evaluate_diff_fva"
    /\ fnOut = Null
    /\ fnOut' = evaluate_diff_fva_results(fnIn.found, fnIn.designs,
                                          fnIn.version)
    /\ UNCHANGED <<fnIn, exo, coreVars, mainVars, designerVars, evalVars, aggVars,
                   apiVars>>

(***************************************************************************)
(* The aggregators on any list of rows: concatenate of tasks.py, and       *)
(* _collect_results as design() of the worker calls it.                    *)
(***************************************************************************)
MaxAggRows == 2

\* evaluate_exotic_cofactors: the row with the pathway's exotic cofactors.
evaluate_exotic_cofactors(r, cofactors) ==
    [method |-> r.method,
     heterologous_reactions |-> r.heterologous_reactions,
     synthetic_reactions |-> r.synthetic_reactions,
     exotic_cofactors |-> cofactors]

\* The method tags tried: the three of the evaluators and one that no
\* evaluator uses.
AggMethods == {DIFF_FVA, OPT_GENE, COFACTOR_SWAP, "PathwayPredictor+Unknown"}

\* Rows as the evaluators build them, without exotic cofactors or with one
\* that is, or is not, a metabolite of the pathway's reactions, and rows
\* with a knockout target, an object with the id of its reaction.
AggRows ==
    {EvaluatedRow(m, p) : m \in AggMethods, p \in Pathways}
        \cup {evaluate_exotic_cofactors(EvaluatedRow(m, p), <<c>>) :
                 m \in AggMethods, p \in Pathways, c \in {2, 9}}
        \cup {[method |-> m,
               heterologous_reactions |-> PathwayReactions(p),
               synthetic_reactions |-> find_synthetic_reactions(p),
               knockouts |-> <<[id |-> p + 1, target |-> "knockout"]>>] :
                 m \in AggMethods, p \in Pathways}

AggInputs == UNION {[1..n -> AggRows] : n \in 0..MaxAggRows}

\* The rows k+1.. of a list.
Drop(rows, k) == SubSeq(rows, k + 1, Len(rows))

\* concatenate on the results of a group of two tasks.
agg_concatenate(k) ==
    /\ aggOut = Null
    /\ k \in 0..Len(aggIn)
    /\ aggOut' = [by |-> "concatenate",
                  out |-> concatenate(<<SubSeq(aggIn, 1, k), Drop(aggIn, k)>>)]
    /\ UNCHANGED <<aggIn, coreVars, mainVars, helperVars, designerVars, evalVars, apiVars>>

\* _collect_results called twice with the same tables and container.
agg_collect_results(k) ==
    /\ aggOut = Null
    /\ k \in 0..Len(aggIn)
    /\ LET first == collect_results(SubSeq(aggIn, 1, k), EmptyDict, EmptyDict,
                                    <<>>)
       IN  aggOut' = [by |-> "_collect_results",
                      out |-> collect_results(Drop(aggIn, k), first.reactions,
                                  first.metabolites, first.container)]
    /\ UNCHANGED <<aggIn, coreVars, mainVars, helperVars, designerVars, evalVars, apiVars>>

\* The loop of design(): the rows a stage returns carry the tag design()
\* passed to the stage, and they are collected into that stage's list.
RECURSIVE design_collect(_, _)
design_collect(rows, acc) ==
    IF rows = <<>> THEN acc
    ELSE LET r == Head(rows)
             c == collect_results(<<r>>, acc.reactions, acc.metabolites,
                      IF r.method = DIFF_FVA THEN acc.diff_fva
                      ELSE acc.cofactor_swap)
             a == [acc EXCEPT !.reactions = c.reactions,
                              !.metabolites = c.metabolites]
         IN  design_collect(Tail(rows),
                 IF r.method = DIFF_FVA THEN [a EXCEPT !.diff_fva = c.container]
                 ELSE [a EXCEPT !.cofactor_swap = c.container])

agg_design ==
    /\ aggOut = Null
    /\ \A i \in DOMAIN aggIn : aggIn[i].method \in {DIFF_FVA, COFACTOR_SWAP}
    /\ aggOut' = [by |-> "design",
                  out |-> design_collect(aggIn, optimization_results(Len(aggIn)))]
    /\ UNCHANGED <<aggIn, coreVars, mainVars, helperVars, designerVars, evalVars, apiVars>>

(***************************************************************************)
(* The read endpoints of resources.py.                                     *)
(***************************************************************************)
\* DesignJob.is_complete
is_complete(st) == st \in {"SUCCESS", "FAILURE", "REVOKED"}

\* The filter of the three queries: the job's project is among the claims of
\* the caller's token, or the job has no project.
NoProject == 0

\* Mutant: the queries are not filtered by project.
visible_to_all(project, prj) == TRUE

visible(project, prj) == project \in prj \/ project = NoProject

\* The status code of PredictionJobResource.get for a record with status st
\* ("ABSENT": no record with the id) that the filter lets, or does not let,
\* through.
PredictionJobResource_get(st, found) ==
    IF st = "ABSENT" \/ ~found THEN 404
    ELSE IF is_complete(st) THEN 200
    ELSE 202

\* The records of the table design_job and the callers tried.
NumRecords == 2
JobIds == 1..NumRecords
RowIds == {"a", "b"}
ProjectIds == {1, 2}

JobResults ==
    {[diff_fva |-> rows, opt_gene |-> <<>>, cofactor_swap |-> <<>>] :
        rows \in {<<>>, <<[id |-> "a", method |-> DIFF_FVA]>>}}

\* A record keeps its project, status and result; the result is there once
\* the pipeline saved SUCCESS (and, a message being delivered again, under
\* STARTED).
JobRecords ==
    {[project |-> pr, status |-> st, result |-> Null] :
        pr \in ProjectIds \cup {NoProject},
        st \in {"PENDING", "STARTED", "FAILURE", "REVOKED"}}
    \cup {[project |-> pr, status |-> st, result |-> res] :
        pr \in ProjectIds \cup {NoProject},
        st \in {"STARTED", "SUCCESS"}, res \in JobResults}

JobTables == UNION {[ids -> JobRecords] : ids \in SUBSET JobIds}

\* The ids of the records the filtered query returns.
query(tbl, prj) == {id \in DOMAIN tbl : visible(tbl[id].project, prj)}

job_not_found(job_id) == [code |-> 404, body |-> [error |-> "job", id |-> job_id]]

\* PredictionJobsResource.get: the jobs the caller can see, without results.
jobs_get(tbl, prj) ==
    [code |-> 200,
     body |-> [id \in query(tbl, prj) |->
                  [project |-> tbl[id].project, status |-> tbl[id].status]]]

\* PredictionJobResource.get: the response with its body.
job_get(tbl, prj, job_id) ==
    LET st == IF job_id \in DOMAIN tbl THEN tbl[job_id].status ELSE "ABSENT"
        code == PredictionJobResource_get(st, job_id \in query(tbl, prj))
    IN  IF code = 404 THEN job_not_found(job_id)
        ELSE [code |-> code, body |-> tbl[job_id]]

\* JobRowResource.get; result["diff_fva"] of a result that is None raises.
row_get(tbl, prj, job_id, row_id) ==
    IF job_id \notin query(tbl, prj) THEN job_not_found(job_id)
    ELSE IF tbl[job_id].result = Null
    THEN [code |-> 500, body |-> [error |-> "TypeError"]]
    ELSE LET res == tbl[job_id].result
             all == res.diff_fva \o res.opt_gene \o res.cofactor_swap
             hit == SelectSeq(all, LAMBDA x : x.id = row_id)
         IN  IF hit = <<>>
             THEN [code |-> 404,
                   body |-> [error |-> "row", id |-> job_id, row |-> row_id]]
             ELSE [code |-> IF is_complete(tbl[job_id].status) THEN 200 ELSE 202,
                   body |-> [csv |-> Head(hit)]]

api_jobs(prj) ==
    /\ response' = [endpoint |-> "jobs", prj |-> prj, job_id |-> 0,
                    row_id |-> "", out |-> jobs_get(table, prj)]
    /\ UNCHANGED <<table, coreVars, mainVars, helperVars, designerVars, evalVars, aggVars>>

api_job(prj, job_id) ==
    /\ response' = [endpoint |-> "job", prj |-> prj, job_id |-> job_id,
                    row_id |-> "", out |-> job_get(table, prj, job_id)]
    /\ UNCHANGED <<table, coreVars, mainVars, helperVars, designerVars, evalVars, aggVars>>

api_row(prj, job_id, row_id) ==
    /\ response' = [endpoint |-> "row", prj |-> prj, job_id |-> job_id,
                    row_id |-> row_id,
                    out |-> row_get(table, prj, job_id, row_id)]
    /\ UNCHANGED <<table, coreVars, mainVars, helperVars, designerVars, evalVars, aggVars>>

(***************************************************************************)
(* The helper functions of helpers.py: atom counts and the strength of     *)
(* chemical linkage.                                                       *)
(***************************************************************************)
MaxCount == 2

Elements == {"C", "H", "O"}

\* Atom-count maps: dicts from some of the elements to counts.
CountMaps == UNION {[keys -> 0..MaxCount] : keys \in SUBSET Elements}

\* counts.get(atom, 0)
dict_get(counts, atom) == IF atom \in DOMAIN counts THEN counts[atom] ELSE 0

\* Mutant: hydrogen stays among the atoms that are counted.
scl_atoms_with_hydrogen(counts_a, counts_d) ==
    DOMAIN counts_a \cup DOMAIN counts_d

\* atoms = counts_a.keys() | counts_d.keys(), a new set, without "H".
scl_atoms(counts_a, counts_d) ==
    (DOMAIN counts_a \cup DOMAIN counts_d) \ {"H"}

min(x, y) == IF x <= y THEN x ELSE y

max(x, y) == IF x >= y THEN x ELSE y

\* a_total (d_total): the sum of the counts over the atoms of the loop.
RECURSIVE scl_total(_, _)
scl_total(counts, atoms) ==
    IF atoms = {} THEN 0
    ELSE LET atom == CHOOSE x \in atoms : TRUE
         IN  dict_get(counts, atom) + scl_total(counts, atoms \ {atom})

\* scl: the sum of min(a_freq, d_freq) over the atoms of the loop.
RECURSIVE scl_overlap(_, _, _)
scl_overlap(counts_a, counts_d, atoms) ==
    IF atoms = {} THEN 0
    ELSE LET atom == CHOOSE x \in atoms : TRUE
         IN  min(dict_get(counts_a, atom), dict_get(counts_d, atom))
                 + scl_overlap(counts_a, counts_d, atoms \ {atom})

\* Mutant: the overlap is normalised by the total of the first compound.
scl_normaliser_first(a_total, d_total) == a_total

\* max(a_total, d_total)
scl_normaliser(a_total, d_total) == max(a_total, d_total)

\* Mutant: a zero denominator gives 0 instead of an error.
divide_or_zero(num, den) ==
    IF den = 0 THEN [raised |-> "none", num |-> 0, den |-> 1]
    ELSE [raised |-> "none", num |-> num, den |-> den]

\* The division of two ints: the quotient as a fraction, or the error.
divide(num, den) ==
    IF den = 0 THEN [raised |-> "ZeroDivisionError", num |-> 0, den |-> 0]
    ELSE [raised |-> "none", num |-> num, den |-> den]

\* Mutant: the sum of max(a_freq, d_freq) instead of the sum of the minima.
scl_numerator_max(counts_a, counts_d, atoms) ==
    scl_total(counts_a, atoms) + scl_total(counts_d, atoms)
        - scl_overlap(counts_a, counts_d, atoms)

scl_numerator(counts_a, counts_d, atoms) ==
    scl_overlap(counts_a, counts_d, atoms)

compute_chemical_linkage_strength(counts_a, counts_d) ==
    LET atoms == scl_atoms(counts_a, counts_d)
    IN  divide(scl_numerator(counts_a, counts_d, atoms),
               scl_normaliser(scl_total(counts_a, atoms),
                              scl_total(counts_d, atoms)))

\* A call of compute_chemical_linkage_strength: what it returned or raised
\* and the two dicts as they are after the call (the function builds a new
\* set of keys and assigns to neither dict).
call_scl ==
    /\ fnIn # Null
    /\ fnIn.fn = "compute_chemical_linkage_strength"
    /\ fnOut = Null
    /\ fnOut' = [value |-> compute_chemical_linkage_strength(fnIn.counts_a,
                                                            fnIn.counts_d),
                 counts_a |-> fnIn.counts_a,
                 counts_d |-> fnIn.counts_d]
    /\ UNCHANGED <<fnIn, exo, coreVars, mainVars, designerVars, evalVars, aggVars,
                   apiVars>>

\* Formulae: strings over a few characters of each class of atom_pattern,
\* [A-Z], [a-z] and [0-9].
MaxFormulaLen == 4

Upper == {"C", "H"}
Lower == {"o"}
Digits == {"1", "2"}

Formulas ==
    UNION {[1..n -> Upper \cup Lower \cup Digits] : n \in 0..MaxFormulaLen}

\* The end of the longest run of characters of class cls that starts at i.
RECURSIVE run_end(_, _, _)
run_end(formula, i, cls) ==
    IF i <= Len(formula) /\ formula[i] \in cls
    THEN run_end(formula, i + 1, cls) ELSE i

\* atom_pattern.finditer(formula): the matches from position i on, each with
\* its groups atom and count.
RECURSIVE finditer(_, _)
finditer(formula, i) ==
    IF i > Len(formula) THEN <<>>
    ELSE IF formula[i] \notin Upper THEN finditer(formula, i + 1)
    ELSE LET j == IF i + 1 <= Len(formula) /\ formula[i + 1] \in Lower
                  THEN i + 2 ELSE i + 1
             k == run_end(formula, j, Digits)
         IN  <<[atom |-> SubSeq(formula, i, j - 1),
                count |-> SubSeq(formula, j, k - 1)]>>
                 \o finditer(formula, k)

\* int() of a string of decimal digits.
RECURSIVE int(_)
int(digits) ==
    IF digits = <<>> THEN 0
    ELSE 10 * int(SubSeq(digits, 1, Len(digits) - 1))
             + (IF digits[Len(digits)] = "1" THEN 1 ELSE 2)

\* The value of the dict comprehension for one match.
match_count(m) == IF Len(m.count) = 0 THEN 1 ELSE int(m.count)

\* count_atoms: a dict comprehension over the matches; a key that comes
\* again replaces the value it had.
count_atoms(formula) ==
    LET matches == finditer(formula, 1)
    IN  [atom \in {matches[n].atom : n \in DOMAIN matches} |->
            LET last == CHOOSE n \in DOMAIN matches :
                            /\ matches[n].atom = atom
                            /\ \A o \in DOMAIN matches :
                                  matches[o].atom = atom => o <= n
            IN  match_count(matches[last])]

call_count_atoms ==
    /\ fnIn # Null
    /\ fnIn.fn = "count_atoms"
    /\ fnOut = Null
    /\ fnOut' = [value |-> count_atoms(fnIn.formula)]
    /\ UNCHANGED <<fnIn, exo, coreVars, mainVars, designerVars, evalVars, aggVars,
                   apiVars>>

(***************************************************************************)
(* identify_exotic_cofactors, in the version of metabolic_ninja/helpers.py *)
(* ("helpers") and of metabolic_ninja/worker/helpers.py ("worker").        *)
(***************************************************************************)
MaxReactions == 2

\* The compounds. Compound 1 is the reactant of the pathway's product
\* (demand) reaction.
Compounds == 1..4

ProductCompound == 1

\* count_atoms(compound.formula) for the formulae C2O, C2, O and CO.
CompoundCounts(c) ==
    CASE c = 1 -> [x \in {"C", "O"} |-> IF x = "C" THEN 2 ELSE 1]
      [] c = 2 -> [x \in {"C"} |-> 2]
      [] c = 3 -> [x \in {"O"} |-> 1]
      [] c = 4 -> [x \in {"C", "O"} |-> 1]

\* The heterologous reactions: one or two reactants, one or two products.
ReactionSides == {s \in SUBSET Compounds : Cardinality(s) \in {1, 2}}

HeterologousReactions ==
    {r \in [reactants : ReactionSides, products : ReactionSides] :
        r.reactants \cap r.products = {}}

\* The sequences that hold each element of a set once.
Orders(set) ==
    {q \in [1..Cardinality(set) -> set] : {q[i] : i \in DOMAIN q} = set}

\* target.reactions & heterologous_reactions
reactions_of(compound, pathway) ==
    {r \in pathway : compound \in r.reactants \cup r.products}

\* Mutant: the compounds are taken whether adapted or not.
keep_adapted(compounds, adapted_sources) == compounds

\* compounds - adapted_sources
non_adapted(compounds, adapted_sources) == compounds \ adapted_sources

\* The strength of chemical linkage the loop computes for a candidate. The
\* version of helpers.py reads the target's counts with
\* atom_counts.setdefault(compound, ...), which returns the counts stored
\* for the compound one line earlier.
linkage(compound, target, version) ==
    IF version = "worker"
    THEN compute_chemical_linkage_strength(CompoundCounts(compound),
                                           CompoundCounts(target))
    ELSE compute_chemical_linkage_strength(CompoundCounts(compound),
                                           CompoundCounts(compound))

\* options.sort(key=itemgetter(1)); options.pop(): a candidate of maximal
\* strength, whichever the iteration over the set put last among them.
precursors(substrates, target, version) ==
    {c \in substrates :
        \A o \in substrates :
            linkage(o, target, version).num * linkage(c, target, version).den
                <= linkage(c, target, version).num
                       * linkage(o, target, version).den}

\* The state before the loop: the queue holds the reactions of the product
\* compound in the order list() gives them.
exo_start(pathway, flux, adapted, version, order) ==
    [version |-> version, pathway |-> pathway, flux |-> flux,
     adapted |-> adapted, target |-> ProductCompound, queue |-> order,
     seen |-> {}, exotic |-> {}, pc |-> "loop", raised |-> "none"]

\* One pass of the while loop on the reaction rxn_queue.pop(): next is the
\* precursor picked among several, order the order in which the reactions
\* of the new target are appended.
exo_pass(e, next, order) ==
    LET rxn == e.queue[Len(e.queue)]
        rest == SubSeq(e.queue, 1, Len(e.queue) - 1)
        seen == e.seen \cup {rxn}
        sign == e.flux[rxn]
        consumed == IF sign = "pos" THEN rxn.reactants ELSE rxn.products
        produced == IF sign = "pos" THEN rxn.products ELSE rxn.reactants
        substrates == IF e.version = "worker" THEN consumed
                      ELSE non_adapted(consumed, e.adapted)
        exotic == e.exotic \cup (non_adapted(produced, e.adapted) \ {e.target})
        target == IF Cardinality(substrates) = 1
                  THEN CHOOSE c \in substrates : TRUE ELSE next
        others == IF Cardinality(substrates) = 1 THEN {}
                  ELSE non_adapted(substrates \ {target}, e.adapted)
    IN  IF sign = "zero"
        THEN [e EXCEPT !.queue = rest, !.seen = seen]
        ELSE IF e.version = "worker" /\ e.target \notin produced
        THEN [e EXCEPT !.queue = rest, !.seen = seen, !.pc = "raised",
                       !.raised = "KeyError"]
        ELSE IF substrates = {}
        THEN [e EXCEPT !.queue = rest, !.seen = seen, !.exotic = exotic]
        ELSE [e EXCEPT !.queue = rest \o order, !.seen = seen,
                       !.exotic = exotic \cup others, !.target = target]

\* The pass as a step: the choices are those the code leaves to the order
\* of its sets.
exo_loop ==
    /\ exo # Null
    /\ exo.pc = "loop"
    /\ exo.queue # <<>>
    /\ \E next \in Compounds :
       \E order \in UNION {Orders(set) : set \in SUBSET exo.pathway} :
          LET rxn == exo.queue[Len(exo.queue)]
              sign == exo.flux[rxn]
              consumed == IF sign = "pos" THEN rxn.reactants ELSE rxn.products
              substrates == IF exo.version = "worker" THEN consumed
                            ELSE non_adapted(consumed, exo.adapted)
              after == exo_pass(exo, next, order)
          IN  /\ next \in IF Cardinality(substrates) >= 2 /\ sign # "zero"
                          THEN precursors(substrates, exo.target, exo.version)
                          ELSE {ProductCompound}
              /\ {order[i] : i \in DOMAIN order}
                    = IF after.target = exo.target /\ after.queue
                             = SubSeq(exo.queue, 1, Len(exo.queue) - 1)
                      THEN {}
                      ELSE reactions_of(after.target, exo.pathway) \ after.seen
              /\ exo' = after
    /\ UNCHANGED <<fnIn, fnOut, coreVars, mainVars, designerVars, evalVars, aggVars,
                   apiVars>>

\* return exotic_cofactors
exo_return ==
    /\ exo # Null
    /\ exo.pc = "loop"
    /\ exo.queue = <<>>
    /\ exo' = [exo EXCEPT !.pc = "returned"]
    /\ UNCHANGED <<fnIn, fnOut, coreVars, mainVars, designerVars, evalVars, aggVars,
                   apiVars>>

(***************************************************************************)
(* evaluate_cofactor_swap on model objects.  A cobra model is an object:   *)
(* the heap maps a reference to the object's contents, reference 1 is the  *)
(* model the caller passed in.                                             *)
(***************************************************************************)
MaxSwapDesigns == 2

SwapReactions == {"r1", "r2"}

source_pair == "nad"
target_pair == "nadp"

\* The co-factor pairs in the stoichiometry of each reaction, and the
\* objective.
SwapModels ==
    [stoich : [SwapReactions -> SUBSET {source_pair, target_pair}],
     objective : {"stored"}]

\* design.targets of one row of the optimizer's data frame.
SwapTargets == UNION {Orders(s) : s \in SUBSET SwapReactions}

SwapDesigns ==
    UNION {[1..n -> SwapTargets] : n \in 0..MaxSwapDesigns}

\* A model that shares the given model's objects.
model_alias(heap, ref) == [heap |-> heap, ref |-> ref]

\* model.copy(): a new object with the same contents.
model_copy(heap, ref) ==
    [heap |-> Append(heap, heap[ref]), ref |-> Len(heap) + 1]

\* The loop over design.targets: the swap of each target reaction and the
\* manipulation recorded for it, or the KeyError.
RECURSIVE swap_targets(_, _, _)
swap_targets(stoich, targets, manipulations) ==
    IF targets = <<>>
    THEN [stoich |-> stoich, manipulations |-> manipulations,
          raised |-> "none"]
    ELSE LET rxn_id == Head(targets)
             metabolites == stoich[rxn_id]
         IN  IF source_pair \in metabolites
             THEN swap_targets([stoich EXCEPT ![rxn_id] = {target_pair}],
                               Tail(targets),
                               Append(manipulations,
                                      [id |-> rxn_id, from |-> source_pair,
                                       to |-> target_pair]))
             ELSE IF target_pair \in metabolites
             THEN swap_targets([stoich EXCEPT ![rxn_id] = {source_pair}],
                               Tail(targets),
                               Append(manipulations,
                                      [id |-> rxn_id, from |-> target_pair,
                                       to |-> source_pair]))
             ELSE [stoich |-> stoich, manipulations |-> manipulations,
                   raised |-> "KeyError"]

\* The start of evaluate_cofactor_swap(designs, pathway, model, method).
swap_start(model) ==
    [pc |-> "loop", heap |-> <<model>>, i |-> 1, results |-> <<>>,
     raised |-> "none"]

\* One pass of the loop over the designs: the copy, the swaps, the two
\* evaluations, each in a context that sets the objective, and the row.
\* Leaving the context restores the objective unless the context fails to,
\* as the comment in the code says it can.
swap_design ==
    /\ fnIn # Null /\ fnIn.fn = "evaluate_cofactor_swap"
    /\ fnOut # Null /\ fnOut.pc = "loop"
    /\ fnIn.found /\ fnOut.i <= Len(fnIn.designs)
    /\ LET tmp == model_copy(fnOut.heap, 1)
           model_tmp == tmp.ref
           swapped == swap_targets(tmp.heap[model_tmp].stoich,
                                   fnIn.designs[fnOut.i], <<>>)
           heap_swapped == [tmp.heap EXCEPT ![model_tmp].stoich =
                                                swapped.stoich]
       IN  IF swapped.raised # "none"
           THEN fnOut' = [fnOut EXCEPT !.pc = "raised",
                                       !.raised = swapped.raised,
                                       !.heap = heap_swapped]
           ELSE \E restored \in BOOLEAN :
                   fnOut' =
                       [fnOut EXCEPT
                           !.i = @ + 1,
                           !.heap = [heap_swapped EXCEPT
                                        ![model_tmp].objective =
                                            IF restored THEN @ ELSE "biomass"],
                           !.results =
                               Append(@, [manipulations |->
                                              swapped.manipulations,
                                          model |-> model_tmp,
                                          evaluated |-> swapped.stoich,
                                          method |-> COFACTOR_SWAP])]
    /\ UNCHANGED <<fnIn, exo, coreVars, mainVars, designerVars, evalVars, aggVars,
                   apiVars>>

\* return []  when designs is None, return results after the loop.
swap_return ==
    /\ fnIn # Null /\ fnIn.fn = "evaluate_cofactor_swap"
    /\ fnOut # Null /\ fnOut.pc = "loop"
    /\ ~fnIn.found \/ fnOut.i > Len(fnIn.designs)
    /\ fnOut' = [fnOut EXCEPT !.pc = "returned"]
    /\ UNCHANGED <<fnIn, exo, coreVars, mainVars, designerVars, evalVars, aggVars,
                   apiVars>>

(***************************************************************************)
(* The configuration of the host model: Job.__init__ of the worker and     *)
(* predict of tasks.py.  Python's True, False and None are the strings of  *)
(* their names.                                                            *)
(***************************************************************************)
PyFlags == {"True", "False", "None"}

\* Python's  not x  on True, False and None.
py_not(x) == x \in {"False", "None"}

\* The lower bounds the oxygen exchange can have in a serialized model.
OxygenBounds == {-1000, -10, 0, 5}

\* The models as deserialized: whether EX_o2_e and the carbon source are
\* among the reactions, and the lower bound of EX_o2_e when it is.
HostModels ==
    {m \in [reactions : SUBSET {"EX_o2_e", "EX_glc__D_e"},
            lower_bound : OxygenBounds \cup {0},
            solver : {"stored"}, carbon_source : {"unset"}] :
        "EX_o2_e" \notin m.reactions => m.lower_bound = 0}

\* The statements that configure the model: solver, oxygen bound, carbon
\* source. The field lower_bound is the one of EX_o2_e.
configure_model(model, aerobic) ==
    [model EXCEPT
        !.solver = "cplex",
        !.lower_bound =
            IF py_not(aerobic) /\ "EX_o2_e" \in model.reactions THEN 0 ELSE @,
        !.carbon_source = "EX_glc__D_e"]

\* Job.__init__ of the worker or predict of tasks.py configures the model.
call_configure_model ==
    /\ fnIn # Null
    /\ fnIn.fn = "configure_model"
    /\ fnOut = Null
    /\ fnOut' = configure_model(fnIn.model, fnIn.aerobic)
    /\ UNCHANGED <<fnIn, exo, coreVars, mainVars, designerVars, evalVars, aggVars,
                   apiVars>>

(***************************************************************************)
(* main() of the worker with several messages in the queue "jobs".  A      *)
(* design thread is its start in on_message and its end, where the finally *)
(* clause of design() registers the acknowledgement; the steps in between  *)
(* are those of the design thread above.                                   *)
(***************************************************************************)
MaxMessages == 3

MainTags == 1..MaxMessages

\* A consumer without a prefetch limit.
qos_unlimited(tags) == TRUE

\* basic_qos(prefetch_count=1): the broker delivers while fewer messages
\* than the prefetch count are unacknowledged on the channel.
basic_qos(tags) == Cardinality(tags) < PrefetchCount

\* main() up to start_consuming, with n messages waiting in the queue.
main_start(n) ==
    [pc |-> "consuming", ready |-> n, unacked |-> {}, is_open |-> TRUE,
     worker_threads |-> <<>>, running |-> {}, callbacks |-> <<>>,
     acked |-> {}, at_sigterm |-> {}, requeued |-> {}]

\* on_message: the broker delivers a message and the callback starts a
\* thread and appends it to worker_threads.
main_on_message ==
    /\ main # Null /\ main.pc = "consuming" /\ main.is_open
    /\ main.ready > 0
    /\ basic_qos(main.unacked)
    /\ Len(main.worker_threads) < MaxMessages
    /\ LET tag == Len(main.worker_threads) + 1
       IN  main' = [main EXCEPT
                       !.ready = @ - 1,
                       !.unacked = @ \cup {tag},
                       !.worker_threads = Append(@, tag),
                       !.running = @ \cup {tag}]
    /\ UNCHANGED <<coreVars, designerVars, evalVars, aggVars, apiVars,
                   helperVars>>

\* design() ends: the finally clause registers ack_message with the
\* connection, unless the thread died in Job.deserialize before the try.
main_design(tag, died) ==
    /\ main # Null /\ tag \in main.running
    /\ main' = [main EXCEPT
                   !.running = @ \ {tag},
                   !.callbacks = IF died THEN @ ELSE Append(@, tag)]
    /\ UNCHANGED <<coreVars, designerVars, evalVars, aggVars, apiVars,
                   helperVars>>

\* ack_message, run for a registered callback by the connection's i/o loop,
\* which runs only while the main thread is inside start_consuming.
main_ack_message ==
    /\ main # Null /\ main.pc \in {"consuming", "stopping"}
    /\ main.callbacks # <<>>
    /\ LET tag == Head(main.callbacks)
       IN  main' = [main EXCEPT
                       !.callbacks = Tail(@),
                       !.acked = IF main.is_open THEN @ \cup {tag} ELSE @,
                       !.unacked = IF main.is_open THEN @ \ {tag} ELSE @]
    /\ UNCHANGED <<coreVars, designerVars, evalVars, aggVars, apiVars,
                   helperVars>>

\* on_terminate: SIGTERM, channel.stop_consuming() cancels the consumer.
on_terminate ==
    /\ main # Null /\ main.pc = "consuming"
    /\ main' = [main EXCEPT !.pc = "stopping", !.at_sigterm = main.running]
    /\ UNCHANGED <<coreVars, designerVars, evalVars, aggVars, apiVars,
                   helperVars>>

\* start_consuming returns, main() goes on to join the threads.
main_stop ==
    /\ main # Null /\ main.pc = "stopping"
    /\ main' = [main EXCEPT !.pc = "joining"]
    /\ UNCHANGED <<coreVars, designerVars, evalVars, aggVars, apiVars,
                   helperVars>>

\* The loop of thread.join() is over and connection.close() closes the
\* channel and the connection: the broker puts the messages that are
\* unacknowledged back in the queue, callbacks not yet run are not run.
main_close ==
    /\ main # Null /\ main.pc = "joining"
    /\ main.running = {}
    /\ main' = [main EXCEPT
                   !.pc = "closed",
                   !.is_open = FALSE,
                   !.callbacks = <<>>,
                   !.requeued = main.unacked,
                   !.ready = @ + Cardinality(main.unacked),
                   !.unacked = {}]
    /\ UNCHANGED <<coreVars, designerVars, evalVars, aggVars, apiVars,
                   helperVars>>

(***************************************************************************)
(* The specification.                                                      *)
(***************************************************************************)
\* The (bigg, rhea) pairs of the request schema that are tried: one that
\* UNIVERSAL_SOURCES has and the one it lacks.
Selectors == {<<TRUE, FALSE>>, <<FALSE, FALSE>>}

NotifyOutcomes == {"sent", "raised"}

\* No record, no message, no thread and no workflow yet.
CoreInit ==
    /\ status = [j \in Jobs |-> "ABSENT"]
    /\ result = [j \in Jobs |-> Null]
    /\ request = [j \in Jobs |-> "none"]
    /\ selector = [j \in Jobs |-> <<TRUE, TRUE>>]
    /\ queue = [j \in Jobs |-> "none"]
    /\ chanOpen = TRUE
    /\ unacked = {}
    /\ nextTag = 1
    /\ callbacks = <<>>
    /\ thread = [t \in Tags |-> NoThread]
    /\ mails = [j \in Jobs |-> <<>>]
    /\ celery = [j \in Jobs |-> NoWorkflow]

DesignerInit == jobModel = DeserializedModel /\ proc = NoProc

EvalInit == evalRow = Null

AggIdle == aggIn = <<>> /\ aggOut = Null

ApiIdle == table = <<>> /\ response = Null

HelperIdle == fnIn = Null /\ fnOut = Null /\ exo = Null

MainIdle == main = Null

Init ==
    CoreInit /\ MainIdle /\ DesignerInit /\ EvalInit /\ AggIdle /\ ApiIdle /\ HelperIdle

Next ==
    \/ \E j \in Jobs, sel \in Selectors : post_commit(j, sel)
    \/ \E j \in Jobs : post_lookup_fails(j)
    \/ \E j \in Jobs : post_submit(j)
    \/ \E j \in Jobs : on_message(j)
    \/ ack_message
    \/ connection_lost
    \/ worker_restart
    \/ \E t \in Tags : design_begin(t)
    \/ \E t \in Tags : wrapper_start(t)
    \/ \E t \in Tags : runner_raise(t)
    \/ \E t \in Tags, v \in AllStageValues : runner_return(t, v)
    \/ \E t \in Tags : runner_diff_fva_degenerate(t)
    \/ \E t \in Tags : wrapper_join(t)
    \/ \E t \in Tags : design_save_success(t)
    \/ \E t \in Tags, o \in NotifyOutcomes : design_notify(t, o)
    \/ \E t \in Tags : design_finally(t)
    \/ \E j \in Jobs : predict_delay(j)
    \/ \E j \in Jobs : predict(j)
    \/ \E j \in Jobs, ok \in BOOLEAN : celery_find_product(j, ok)
    \/ \E j \in Jobs, ok \in BOOLEAN, n \in 0..MaxPathways :
          celery_find_pathways(j, ok, n)
    \/ \E j \in Jobs : optimize(j)
    \/ \E j \in Jobs, p \in Members, ok \in BOOLEAN :
          celery_cofactor_swap_optimization(j, p, ok)
    \/ \E j \in Jobs, p \in Members, ok \in BOOLEAN, n \in 0..MaxRows :
          celery_evaluate_cofactor_swap(j, p, ok, n)
    \/ \E j \in Jobs : celery_concatenate(j)
    \/ \E j \in Jobs : persist(j)
    \/ \E j \in Jobs, o \in NotifyOutcomes : notify(j, o)
    \/ \E j \in Jobs : fail_workflow(j)

Spec == Init /\ [][Next]_vars

\* The child process of a @task call runs, and the wrapper, blocked in
\* process.join(), goes on as soon as the child has exited.
SpecLive ==
    /\ Spec
    /\ \A t \in Tags :
          /\ WF_vars(wrapper_join(t))
          /\ WF_vars(\/ runner_raise(t)
                     \/ runner_diff_fva_degenerate(t)
                     \/ \E v \in AllStageValues : runner_return(t, v))

\* The stage processes and their optimizers alone.
NextDesigner ==
    \/ process_start
    \/ \E fn \in Optimizers, p \in Pathways : call_optimizer(fn, p)
    \/ \E n \in 0..MaxRows : call_evaluator(n)
    \/ process_crash
    \/ process_join

SpecDesigner == Init /\ [][NextDesigner]_vars

\* The evaluators alone, on every outcome of the calls they make.
NextEval ==
    \/ \E production \in ProductionRuns, coupled \in CoupledRuns :
          evaluate_cofactor_swap(production, coupled)
    \/ \E run \in OptGeneRuns : evaluate_opt_gene(run)
    \/ evaluate_diff_fva

SpecEval == Init /\ [][NextEval]_vars

\* The aggregators alone, on every list of rows within the bound.
InitAgg ==
    /\ CoreInit /\ MainIdle /\ DesignerInit /\ EvalInit /\ ApiIdle /\ HelperIdle
    /\ aggIn \in AggInputs
    /\ aggOut = Null

NextAgg ==
    \/ \E k \in 0..MaxAggRows : agg_concatenate(k)
    \/ \E k \in 0..MaxAggRows : agg_collect_results(k)
    \/ agg_design

SpecAgg == InitAgg /\ [][NextAgg]_vars

\* The read endpoints alone, on every table within the bound.
InitApi ==
    /\ CoreInit /\ MainIdle /\ DesignerInit /\ EvalInit /\ AggIdle /\ HelperIdle
    /\ table \in JobTables
    /\ response = Null

NextApi ==
    \E prj \in SUBSET ProjectIds :
        \/ api_jobs(prj)
        \/ \E job_id \in 1..(NumRecords + 1) : api_job(prj, job_id)
        \/ \E job_id \in 1..(NumRecords + 1), row_id \in RowIds :
              api_row(prj, job_id, row_id)

SpecApi == InitApi /\ [][NextApi]_vars

\* compute_chemical_linkage_strength alone, on every pair of atom-count maps
\* within the bound.
InitScl ==
    /\ CoreInit /\ MainIdle /\ DesignerInit /\ EvalInit /\ AggIdle /\ ApiIdle
    /\ fnIn \in [fn : {"compute_chemical_linkage_strength"},
                 counts_a : CountMaps, counts_d : CountMaps]
    /\ fnOut = Null
    /\ exo = Null

NextScl == call_scl

SpecScl == InitScl /\ [][NextScl]_vars

\* count_atoms alone, on every string within the bound.
InitAtoms ==
    /\ CoreInit /\ MainIdle /\ DesignerInit /\ EvalInit /\ AggIdle /\ ApiIdle
    /\ fnIn \in [fn : {"count_atoms"}, formula : Formulas]
    /\ fnOut = Null
    /\ exo = Null

NextAtoms == call_count_atoms

SpecAtoms == InitAtoms /\ [][NextAtoms]_vars

\* identify_exotic_cofactors alone, in both versions, on every pathway of up
\* to MaxReactions reactions, every direction of flux and two adapters.
InitExotic ==
    /\ CoreInit /\ MainIdle /\ DesignerInit /\ EvalInit /\ AggIdle /\ ApiIdle
    /\ fnIn = Null
    /\ fnOut = Null
    /\ \E pathway \in UNION {{{q[i] : i \in 1..n} :
                                  q \in [1..n -> HeterologousReactions]} :
                             n \in 0..MaxReactions},
          adapted \in SUBSET {3, 4}, version \in {"helpers", "worker"} :
          \E flux \in [pathway -> {"pos", "neg", "zero"}],
             order \in Orders(reactions_of(ProductCompound, pathway)) :
             exo = exo_start(pathway, flux, adapted, version, order)

NextExotic == exo_loop \/ exo_return

SpecExotic == InitExotic /\ [][NextExotic]_vars

\* evaluate_diff_fva alone, in both versions, on the outcome of every
\* surface scan within the bound.
InitDiffFva ==
    /\ CoreInit /\ MainIdle /\ DesignerInit /\ EvalInit /\ AggIdle /\ ApiIdle
    /\ fnIn \in [fn : {"evaluate_diff_fva"},
                 found : {diff_fva_designs(scan) :
                             scan \in {"designs", "ZeroDivisionError"}},
                 designs : DesignLists,
                 version : {"worker", "celery"}]
    /\ fnOut = Null
    /\ exo = Null

NextDiffFva == call_evaluate_diff_fva

SpecDiffFva == InitDiffFva /\ [][NextDiffFva]_vars

\* evaluate_cofactor_swap alone, on every model and list of designs within
\* the bound.
InitSwap ==
    /\ CoreInit /\ MainIdle /\ DesignerInit /\ EvalInit /\ AggIdle /\ ApiIdle
    /\ \E found \in BOOLEAN, model \in SwapModels :
          \E designs \in (IF found THEN SwapDesigns ELSE {<<>>}) :
             /\ fnIn = [fn |-> "evaluate_cofactor_swap", found |-> found,
                        designs |-> designs, model |-> model]
             /\ fnOut = swap_start(model)
    /\ exo = Null

NextSwap == swap_design \/ swap_return

\* The configuration of the host model alone, for every value of the aerobic
\* flag, in the worker and in the Celery task.
InitConfigure ==
    /\ CoreInit /\ MainIdle /\ DesignerInit /\ EvalInit /\ AggIdle /\ ApiIdle
    /\ fnIn \in [fn : {"configure_model"}, model : HostModels,
                 aerobic : PyFlags, version : {"worker", "celery"}]
    /\ fnOut = Null
    /\ exo = Null

NextConfigure == call_configure_model

\* main() of the worker alone, with up to MaxMessages messages waiting.
InitMain ==
    /\ CoreInit /\ DesignerInit /\ EvalInit /\ AggIdle /\ ApiIdle /\ HelperIdle
    /\ \E n \in 1..MaxMessages : main = main_start(n)

NextMain ==
    \/ main_on_message
    \/ \E tag \in MainTags, died \in BOOLEAN : main_design(tag, died)
    \/ main_ack_message
    \/ on_terminate
    \/ main_stop
    \/ main_close

SpecMain == InitMain /\ [][NextMain]_vars

SpecConfigure == InitConfigure /\ [][NextConfigure]_vars

SpecSwap == InitSwap /\ [][NextSwap]_vars


(***************************************************************************)
(* Properties of the job record and of the workflows.                      *)
(***************************************************************************)
Live(t) == ~ThreadOver(t)

\* The latest delivery: no design thread was started after this one.
LatestRun(t) == \A u \in Tags : u > t => thread[u].pc = "unborn"

EmptyBuckets(r) ==
    /\ r.diff_fva = <<>> /\ r.opt_gene = <<>> /\ r.cofactor_swap = <<>>
    /\ DOMAIN r.reactions = {} /\ DOMAIN r.metabolites = {}

\* C1: no DesignJob record has a non-null result while its status is PENDING
\* or STARTED, also after a message is delivered again.
CE_C1 ==
    \A j \in Jobs : status[j] \in {"PENDING", "STARTED"} => result[j] = Null

StatusRank(s) ==
    CASE s = "ABSENT" -> 0
      [] s = "PENDING" -> 1
      [] s = "STARTED" -> 2
      [] s \in Terminal -> 3

\* C2: the status only moves forward along PENDING -> STARTED -> {SUCCESS,
\* FAILURE, REVOKED}; a terminal status is never changed again.
CE_C2 ==
    [][\A j \in Jobs :
          /\ StatusRank(status'[j]) >= StatusRank(status[j])
          /\ status[j] \in Terminal => status'[j] = status[j]]_vars

\* C3: when a stage of the pipeline ended with an unhandled exception, the
\* workflow it belongs to leaves the record with status FAILURE.
CE_C3 ==
    /\ \A t \in Tags :
          thread[t].pc = "ended" /\ thread[t].exc = "TaskFailedException"
              /\ LatestRun(t)
          => status[thread[t].job] = "FAILURE"
    /\ \A j \in Jobs :
          celery[j].failed /\ celery[j].errbacks = 0 => status[j] = "FAILURE"

\* C4 as stated: the result is non-null if and only if the status is SUCCESS
\* or FAILURE.
CE_C4 ==
    \A j \in Jobs :
        status[j] # "ABSENT" =>
            (result[j] # Null <=> status[j] \in {"SUCCESS", "FAILURE"})

\* C4 as amended: a record with status SUCCESS has a result, and a record
\* with status PENDING or FAILURE has none.
Thm_C4 ==
    \A j \in Jobs :
        /\ status[j] = "SUCCESS" => result[j] # Null
        /\ status[j] \in {"PENDING", "FAILURE"} => result[j] = Null

Wit_C4 ==
    \E j \in Jobs :
        status[j] = "FAILURE" /\ result[j] = Null /\ celery[j].failed

\* The stages a workflow over n pathways has to complete.
RequiredStages(n) ==
    {<<"find_product", 0>>, <<"find_pathways", 0>>}
        \cup ({"diff_fva", "cofactor_swap"} \X (1..n))

RowsOf(bucket, p) ==
    Cardinality({i \in DOMAIN bucket :
        bucket[i].heterologous_reactions = Ids(PathwayReactions(p))})

BucketOf(r, stage) == IF stage = "diff_fva" THEN r.diff_fva ELSE r.cofactor_swap

\* The design thread has been through the whole pipeline and holds the
\* rows of every stage.
ThreadComplete(th) ==
    /\ th.pc = "save_success"
    /\ th.child = "none"
    /\ th.exc = "none"
    /\ {<<c[1], c[2]>> : c \in th.completed} = RequiredStages(th.pathways)
    /\ \A c \in th.completed :
          c[1] \in {"diff_fva", "cofactor_swap"} =>
              RowsOf(BucketOf(th.results, c[1]), c[2]) = c[3]

ChainComplete(wf) ==
    /\ wf.pc = "persist"
    /\ ~wf.failed
    /\ \A p \in Members :
          wf.member[p] = (IF p <= wf.pathways THEN "done" ELSE "none")
    /\ \A p \in 1..wf.pathways : RowsOf(wf.payload.cofactor_swap, p) = wf.rows[p]

\* C5: SUCCESS is written only by a workflow whose product resolution,
\* pathway prediction and every enabled stage of every pathway have
\* completed and whose rows are aggregated; no stage of it is pending or
\* running at that moment.
Thm_C5 ==
    [][\A j \in Jobs :
          status'[j] = "SUCCESS" /\ status[j] # "SUCCESS" =>
              \/ \E t \in Tags :
                    /\ thread[t].job = j
                    /\ ThreadComplete(thread[t])
                    /\ result'[j] = thread[t].results
              \/ /\ ChainComplete(celery[j])
                 /\ result'[j] = celery[j].payload]_vars

Wit_C5 ==
    \E t \in Tags :
        /\ thread[t].pc = "notify"
        /\ thread[t].pathways = MaxPathways
        /\ status[thread[t].job] = "SUCCESS"
        /\ Len(result[thread[t].job].diff_fva) > 0

\* C6: once a stage of a workflow run has failed, that run starts no further
\* stage and writes no result to the record.
Thm_C6 ==
    /\ [](\A t \in Tags :
            thread[t].exc = "TaskFailedException" =>
                thread[t].pc \in {"finally", "ended"} /\ thread[t].child = "none")
    /\ [][\A t \in Tags :
            thread[t].exc = "TaskFailedException" /\ Live(t) =>
                /\ thread'[t].started \subseteq thread[t].started
                /\ result'[thread[t].job] = result[thread[t].job]
                /\ status'[thread[t].job] # "SUCCESS"]_vars

Wit_C6 ==
    \E t \in Tags :
        /\ thread[t].pc = "finally"
        /\ thread[t].exc = "TaskFailedException"
        /\ thread[t].results # Null
        /\ Len(thread[t].results.diff_fva) > 0
        /\ thread[t].index < thread[t].pathways

\* C7: a notification is attempted only when SUCCESS and the result are in
\* the record, and whether it is sent or raises, the status the workflow
\* leaves behind is SUCCESS.
Thm_C7 ==
    /\ [][\A j \in Jobs :
            mails'[j] # mails[j] =>
                /\ status[j] = "SUCCESS" /\ result[j] # Null
                /\ status'[j] = "SUCCESS" /\ result'[j] = result[j]]_vars
    /\ [](\A j \in Jobs :
            request[j] = "celery" /\ mails[j] # <<>> => status[j] = "SUCCESS")
    /\ [](\A t \in Tags :
            thread[t].pc \in {"finally", "ended"} /\ thread[t].exc = "none"
                /\ LatestRun(t)
            => status[thread[t].job] = "SUCCESS")

Wit_C7 ==
    \E j \in Jobs :
        /\ mails[j] # <<>>
        /\ mails[j][Len(mails[j])] = "raised"
        /\ status[j] = "SUCCESS"

\* C8: every design() call schedules exactly one acknowledgement of its
\* delivery tag, and only when the call has come to its end.
CE_C8 ==
    \A t \in Tags :
        /\ thread[t].pc \in {"ended", "crashed"} => thread[t].acks = 1
        /\ Live(t) => thread[t].acks = 0

\* C9: once the wrapped function has returned a value in the child, the
\* call is on its way to return exactly that value (the child has exited
\* with code 0 and the value is in the pipe), and once it has raised, the
\* call is on its way to raise TaskFailedException.
CE_C9 ==
    \A t \in Tags :
        thread[t].child # "none" =>
            /\ thread[t].fn = "returned" =>
                  thread[t].child = "exit_ok" /\ thread[t].pipe = thread[t].retval
            /\ thread[t].fn = "raised" => thread[t].child = "exit_err"

OptimizerStarted(th) ==
    \E s \in th.started : s[1] \in {"diff_fva", "cofactor_swap"}

\* C10: a workflow whose pathway prediction returned zero pathways starts
\* no optimizer or evaluator stage, has no failed stage, and leaves the
\* record with SUCCESS and a result whose buckets and tables are empty.
Thm_C10 ==
    /\ \A t \in Tags :
          <<"find_pathways", 0, 0>> \in thread[t].completed =>
              /\ ~OptimizerStarted(thread[t])
              /\ thread[t].exc = "none"
              /\ thread[t].pc \in {"save_success", "notify", "finally"}
              /\ thread[t].pc \in {"notify", "finally"} =>
                    /\ status[thread[t].job] = "SUCCESS"
                    /\ EmptyBuckets(result[thread[t].job])
    /\ \A j \in Jobs :
          celery[j].pathways = 0
              /\ celery[j].pc \in {"group", "persist", "notify", "done"} =>
              /\ \A p \in Members : celery[j].member[p] = "none"
              /\ ~celery[j].failed
              /\ celery[j].pc \in {"notify", "done"} =>
                    /\ status[j] = "SUCCESS"
                    /\ EmptyBuckets(result[j])

Wit_C10 ==
    \E t \in Tags :
        /\ <<"find_pathways", 0, 0>> \in thread[t].completed
        /\ thread[t].pc = "finally"
        /\ status[thread[t].job] = "SUCCESS"

\* C11 as stated: when an optimizer returns, the model it was given is in
\* the state it had before the call (no pathway reaction, bound or objective
\* of the call is left in it).
CE_C11 == proc.pc = "optimized" => proc.model = proc.before

\* C12: the orchestrator's job.model is never changed by a stage, and every
\* stage process starts from the model as it was deserialized, whatever the
\* stages before it did to their model or however they ended.
Thm_C12 ==
    /\ [](jobModel = DeserializedModel)
    /\ [][proc.pc = "none" /\ proc'.pc # "none" =>
              proc'.model = DeserializedModel]_vars

Wit_C12 ==
    /\ proc.pc = "running"
    /\ proc.lastExit = "crashed"
    /\ proc.lastModel # DeserializedModel
    /\ proc.model = DeserializedModel

Metrics(r) == {r.product, r.yield, r.fitness, r.biomass}

\* C13 as stated: in a row for which a solver error or a division by zero
\* was caught while its metrics were computed, all four metrics are None.
CE_C13 == evalRow # Null /\ evalRow.caught => Metrics(evalRow) = {None}

\* C14 as stated: each of the four metrics of a row is a finite number or
\* None; not-a-number and infinity never reach the row.
CE_C14 == evalRow # Null => Metrics(evalRow) \subseteq {"finite", None}

\* C15: when the surface scan of a pathway raises ZeroDivisionError, the
\* diff_fva stage returns an empty row list instead of failing, counts as
\* completed, and the workflow goes on with the cofactor swap of the same
\* pathway.
Thm_C15 ==
    /\ [](\A t \in Tags : \A i \in thread[t].degenerate :
             IF thread[t].pc = "diff_fva" /\ thread[t].index = i
             THEN /\ thread[t].fn = "returned"
                  /\ thread[t].retval.n = 0
                  /\ thread[t].child = "exit_ok"
                  /\ thread[t].exc = "none"
             ELSE <<"diff_fva", i, 0>> \in thread[t].completed)
    /\ [][\A t \in Tags :
              /\ thread[t].pc = "diff_fva"
              /\ thread[t].index \in thread[t].degenerate
              /\ thread'[t].pc # "diff_fva"
              => /\ thread'[t].pc = "cofactor_swap"
                 /\ thread'[t].index = thread[t].index
                 /\ thread'[t].exc = "none"
                 /\ thread'[t].results.diff_fva = thread[t].results.diff_fva]_vars

Wit_C15 ==
    \E t \in Tags :
        /\ thread[t].pc = "save_success"
        /\ thread[t].pathways = 2
        /\ thread[t].degenerate = {1}
        /\ thread[t].results.cofactor_swap # <<>>
        /\ thread[t].results.diff_fva # <<>>

AggFailed == aggOut.out = [error |-> "ValueError"]

AllKnown == \A i \in DOMAIN aggIn : KnownMethod(aggIn[i])

\* The ids the rows given to the aggregator refer to.
AggReactionIds ==
    UNION {{aggIn[i].heterologous_reactions[k].id :
                k \in DOMAIN aggIn[i].heterologous_reactions}
           \cup {aggIn[i].synthetic_reactions[k].id :
                    k \in DOMAIN aggIn[i].synthetic_reactions} :
           i \in DOMAIN aggIn}

AggMetaboliteIds ==
    UNION {UNION {aggIn[i].heterologous_reactions[k].metabolites :
                     k \in DOMAIN aggIn[i].heterologous_reactions}
           \cup Range(RowGet(aggIn[i], "exotic_cofactors")) :
           i \in DOMAIN aggIn}

\* C16: the reactions table has one entry for every reaction id a row refers
\* to and the metabolites table one for every metabolite id of the
\* heterologous reactions and exotic cofactors, however many rows refer to
\* it, and nothing else; interning an id again is no error (the only error
\* of an aggregator is the one for an unknown method tag).
Thm_C16 ==
    aggOut # Null =>
        IF AggFailed THEN aggOut.by = "concatenate" /\ ~AllKnown
        ELSE /\ DOMAIN aggOut.out.reactions = AggReactionIds
             /\ \A k \in AggReactionIds : aggOut.out.reactions[k] = [id |-> k]
             /\ DOMAIN aggOut.out.metabolites = AggMetaboliteIds
             /\ \A k \in AggMetaboliteIds :
                   aggOut.out.metabolites[k] = [id |-> k]

Wit_C16 ==
    /\ aggOut # Null
    /\ ~AggFailed
    /\ Len(aggIn) = 2
    /\ aggIn[1].heterologous_reactions = aggIn[2].heterologous_reactions
    /\ RowGet(aggIn[2], "exotic_cofactors") = <<2>>
    /\ Cardinality(DOMAIN aggOut.out.reactions) = 3

\* C17 as stated: given a row with an unknown method tag, aggregation raises
\* an error (and so puts the row in no bucket).
CE_C17 == aggOut # Null /\ ~AllKnown => AggFailed

\* The rows of method m among those given, as they are stored.
Expected(m) ==
    LET sel == SelectSeq(aggIn, LAMBDA r : r.method = m)
    IN  [i \in DOMAIN sel |-> StoredRow(sel[i])]

\* C18: when every row given has a recognised tag, each bucket holds exactly
\* the given rows of its own tag, in order, so no row is lost, duplicated or
\* put in another bucket, and the buckets together hold as many rows as
\* were given; _collect_results appends exactly the given rows to the list
\* it is handed.
Thm_C18 ==
    aggOut # Null /\ AllKnown =>
        /\ ~AggFailed
        /\ IF aggOut.by = "_collect_results"
           THEN aggOut.out.container = [i \in DOMAIN aggIn |-> StoredRow(aggIn[i])]
           ELSE /\ aggOut.out.diff_fva = Expected(DIFF_FVA)
                /\ aggOut.out.opt_gene = Expected(OPT_GENE)
                /\ aggOut.out.cofactor_swap = Expected(COFACTOR_SWAP)
                /\ Len(aggOut.out.diff_fva) + Len(aggOut.out.opt_gene)
                       + Len(aggOut.out.cofactor_swap) = Len(aggIn)

Wit_C18 ==
    /\ aggOut # Null
    /\ aggOut.by = "concatenate"
    /\ Len(aggIn) = 2
    /\ aggIn[1].method = COFACTOR_SWAP
    /\ aggIn[2].method = DIFF_FVA
    /\ Len(aggOut.out.diff_fva) = 1

\* C19 as stated: for a job the caller can see, GET /predictions/<job_id>
\* answers 200 exactly when the status is SUCCESS, FAILURE or REVOKED and 202
\* exactly when it is PENDING or STARTED, and over the life of a job the
\* answer never goes from 200 back to 202.
CE_C19 ==
    /\ [](\A j \in Jobs :
            /\ PredictionJobResource_get(status[j], TRUE) = 200
                   <=> status[j] \in {"SUCCESS", "FAILURE", "REVOKED"}
            /\ PredictionJobResource_get(status[j], TRUE) = 202
                   <=> status[j] \in {"PENDING", "STARTED"})
    /\ [][\A j \in Jobs :
            PredictionJobResource_get(status[j], TRUE) = 200
                => PredictionJobResource_get(status'[j], TRUE) # 202]_vars

\* The part of C19 about one answer: which code goes with which status.
Code_C19 ==
    \A j \in Jobs :
        /\ PredictionJobResource_get(status[j], TRUE) = 200
               <=> status[j] \in {"SUCCESS", "FAILURE", "REVOKED"}
        /\ PredictionJobResource_get(status[j], TRUE) = 202
               <=> status[j] \in {"PENDING", "STARTED"}

\* The job is of a project that is not among the claims prj.
Hidden(tbl, prj, id) ==
    id \in DOMAIN tbl /\ tbl[id].project \notin prj \cup {NoProject}

\* The table without the jobs hidden from prj.
Purge(tbl, prj) ==
    [id \in {i \in DOMAIN tbl : ~Hidden(tbl, prj, i)} |-> tbl[id]]

\* The response to the request of `response`, on table tbl with claims prj.
Respond(tbl, prj) ==
    CASE response.endpoint = "jobs" -> jobs_get(tbl, prj)
      [] response.endpoint = "job" -> job_get(tbl, prj, response.job_id)
      [] response.endpoint = "row" ->
            row_get(tbl, prj, response.job_id, response.row_id)

\* C20: a job is exposed only if its project is null or among the caller's
\* claims: the list holds exactly the other jobs, the single-job and the
\* row-export endpoint answer a hidden job with the 404 of a job that does
\* not exist, the response is the one of the table without the hidden jobs,
\* and a caller whose claims differ only in projects that own no job gets
\* the same response.
Thm_C20 ==
    response # Null =>
        /\ response.endpoint = "jobs" =>
              DOMAIN response.out.body
                  = {id \in DOMAIN table : ~Hidden(table, response.prj, id)}
        /\ response.endpoint \in {"job", "row"}
              /\ Hidden(table, response.prj, response.job_id) =>
                  response.out = job_not_found(response.job_id)
        /\ response.out = Respond(Purge(table, response.prj), response.prj)
        /\ \A prj2 \in SUBSET ProjectIds :
              (\A id \in DOMAIN table :
                  table[id].project \notin
                      (prj2 \ response.prj) \cup (response.prj \ prj2))
                  => Respond(table, prj2) = response.out

Wit_C20 ==
    /\ response # Null
    /\ response.endpoint = "row"
    /\ response.prj = {1}
    /\ response.job_id = 2
    /\ DOMAIN table = {1, 2}
    /\ table[1].project = 1
    /\ table[2].project = 2
    /\ table[2].status = "SUCCESS"
    /\ table[2].result # Null
    /\ table[2].result.diff_fva # <<>>
    /\ response.row_id = "a"
    /\ response.out.code = 404

\* C21 as stated: building the Job from the message of a request the schema
\* accepted resolves a universal database for every (bigg, rhea) pair and
\* never fails on an unknown selector.
CE_C21 ==
    /\ \A t \in Tags :
          thread[t].pc \notin {"unborn", "deserialize"}
              => thread[t].exc # "KeyError"
    /\ \A j \in Jobs : celery[j].pc # "predict_failed"

SclCalled ==
    /\ fnOut # Null
    /\ fnIn.fn = "compute_chemical_linkage_strength"

\* Two outcomes of the function are the same number or the same error.
SameValue(v, w) ==
    /\ v.raised = w.raised
    /\ v.num * w.den = w.num * v.den

\* C25: whenever scl(A, D) is defined, scl(D, A) is defined and equal.
Thm_C25 ==
    SclCalled /\ fnOut.value.raised = "none" =>
        SameValue(fnOut.value,
                  compute_chemical_linkage_strength(fnIn.counts_d,
                                                    fnIn.counts_a))

Wit_C25 ==
    /\ SclCalled
    /\ fnIn.counts_a = [x \in {"C"} |-> 1]
    /\ fnIn.counts_d = [x \in {"C", "O"} |-> IF x = "C" THEN 2 ELSE 1]
    /\ fnOut.value = [raised |-> "none", num |-> 1, den |-> 3]

\* The map has a non-hydrogen atom with a positive count.
HasHeavyAtom(counts) ==
    \E atom \in DOMAIN counts \ {"H"} : counts[atom] > 0

\* C26: whenever scl(A, D) is defined it is a fraction num/den with
\* 0 <= num <= den, that is between 0 and 1, and scl(A, A) is defined and
\* equal to 1 for every A with a non-hydrogen atom.
Thm_C26 ==
    SclCalled =>
        /\ fnOut.value.raised = "none" =>
              /\ fnOut.value.den > 0
              /\ 0 <= fnOut.value.num
              /\ fnOut.value.num <= fnOut.value.den
        /\ fnIn.counts_a = fnIn.counts_d /\ HasHeavyAtom(fnIn.counts_a) =>
              /\ fnOut.value.raised = "none"
              /\ fnOut.value.num = fnOut.value.den

Wit_C26 ==
    /\ SclCalled
    /\ fnIn.counts_a = fnIn.counts_d
    /\ DOMAIN fnIn.counts_a = {"C", "H", "O"}
    /\ fnIn.counts_a["C"] = 2
    /\ fnIn.counts_a["O"] = 1
    /\ fnOut.value = [raised |-> "none", num |-> 3, den |-> 3]

\* The maps that differ from counts at most in the entry of hydrogen.
HVariants(counts) ==
    {c \in CountMaps :
        /\ DOMAIN c \ {"H"} = DOMAIN counts \ {"H"}
        /\ \A atom \in DOMAIN c \ {"H"} : c[atom] = counts[atom]}

\* C27: changing, adding or removing the hydrogen count of either argument
\* does not change the outcome, and the call leaves both arguments as they
\* were.
Thm_C27 ==
    SclCalled =>
        /\ \A a \in HVariants(fnIn.counts_a), d \in HVariants(fnIn.counts_d) :
              SameValue(compute_chemical_linkage_strength(a, d), fnOut.value)
        /\ fnOut.counts_a = fnIn.counts_a
        /\ fnOut.counts_d = fnIn.counts_d

Wit_C27 ==
    /\ SclCalled
    /\ fnIn.counts_a = [x \in {"H"} |-> 1]
    /\ fnIn.counts_d = [x \in {"C", "H"} |-> 1]
    /\ fnOut.value = [raised |-> "none", num |-> 0, den |-> 1]
    /\ "H" \in DOMAIN fnOut.counts_a

\* C28: the call raises ZeroDivisionError exactly when neither argument has
\* a non-hydrogen atom with a positive count, and returns a number for every
\* other pair.
Thm_C28 ==
    SclCalled =>
        /\ fnOut.value.raised = "ZeroDivisionError"
              <=> ~HasHeavyAtom(fnIn.counts_a) /\ ~HasHeavyAtom(fnIn.counts_d)
        /\ fnOut.value.raised = "none"
              <=> HasHeavyAtom(fnIn.counts_a) \/ HasHeavyAtom(fnIn.counts_d)

Wit_C28 ==
    /\ SclCalled
    /\ fnIn.counts_a = <<>>
    /\ fnIn.counts_d = <<>>
    /\ fnOut.value.raised = "ZeroDivisionError"

\* The tokens of a formula: symbol and optional count.
Tokens(formula) == finditer(formula, 1)

\* The formula is a sequence of tokens and nothing else.
RECURSIVE TokenLength(_)
TokenLength(tokens) ==
    IF tokens = <<>> THEN 0
    ELSE Len(Head(tokens).atom) + Len(Head(tokens).count)
             + TokenLength(Tail(tokens))

IsTokenSequence(formula) == TokenLength(Tokens(formula)) = Len(formula)

\* The number of atoms of an element in the formula.
RECURSIVE AtomsOf(_, _)
AtomsOf(atom, tokens) ==
    IF tokens = <<>> THEN 0
    ELSE (IF Head(tokens).atom = atom THEN match_count(Head(tokens)) ELSE 0)
             + AtomsOf(atom, Tail(tokens))

\* C29 as stated: for a formula that is a sequence of tokens, the keys of
\* the map are the symbols of the formula and the value of a symbol is the
\* number of atoms of that element in the formula.
CE_C29 ==
    /\ fnOut # Null
    /\ fnIn.fn = "count_atoms"
    /\ IsTokenSequence(fnIn.formula)
    => /\ DOMAIN fnOut.value
             = {Tokens(fnIn.formula)[n].atom : n \in DOMAIN Tokens(fnIn.formula)}
       /\ \A atom \in DOMAIN fnOut.value :
             fnOut.value[atom] = AtomsOf(atom, Tokens(fnIn.formula))

\* The part of C29 that holds: the same for formulae in which no symbol
\* comes twice.
NoRepeat_C29 ==
    /\ fnOut # Null
    /\ fnIn.fn = "count_atoms"
    /\ IsTokenSequence(fnIn.formula)
    /\ \A n, o \in DOMAIN Tokens(fnIn.formula) :
          Tokens(fnIn.formula)[n].atom = Tokens(fnIn.formula)[o].atom => n = o
    => /\ DOMAIN fnOut.value
             = {Tokens(fnIn.formula)[n].atom : n \in DOMAIN Tokens(fnIn.formula)}
       /\ \A atom \in DOMAIN fnOut.value :
             fnOut.value[atom] = AtomsOf(atom, Tokens(fnIn.formula))

DiffFvaEvaluated ==
    /\ fnOut # Null
    /\ fnIn.fn = "evaluate_diff_fva"
    /\ fnIn.found = "designs"
    /\ Len(fnIn.designs) >= 1

\* Row i was made from design i.
RowOfDesign(row, design) ==
    /\ row.knockouts = {t \in design : t.kind = "knockout"}
    /\ (row.manipulations = {}) = (design \subseteq row.knockouts)

\* C30 as stated: for n >= 1 designs evaluate_diff_fva returns n - 1 rows,
\* one for every design except the last, in the order of the designs.
CE_C30 ==
    DiffFvaEvaluated =>
        /\ fnOut.raised = "none"
        /\ Len(fnOut.rows) = Len(fnIn.designs) - 1
        /\ \A i \in DOMAIN fnOut.rows :
              RowOfDesign(fnOut.rows[i], fnIn.designs[i])

\* The part of C30 that holds: the same whenever the call returns.
Returned_C30 ==
    DiffFvaEvaluated /\ fnOut.raised = "none" =>
        /\ Len(fnOut.rows) = Len(fnIn.designs) - 1
        /\ \A i \in DOMAIN fnOut.rows :
              RowOfDesign(fnOut.rows[i], fnIn.designs[i])

ExoticReturned == exo # Null /\ exo.pc = "returned"

\* C24: the set identify_exotic_cofactors returns holds no product of an
\* adapter reaction, and only compounds of the pathway's reactions that
\* carry flux, so it is empty when all of those have adapters.
Thm_C24 ==
    ExoticReturned =>
        /\ exo.exotic \cap exo.adapted = {}
        /\ exo.exotic \subseteq
              UNION {r.reactants \cup r.products :
                        r \in {x \in exo.pathway : exo.flux[x] # "zero"}}

Wit_C24 ==
    /\ ExoticReturned
    /\ exo.version = "worker"
    /\ exo.adapted = {3, 4}
    /\ exo.pathway = {[reactants |-> {2, 3}, products |-> {1, 4}]}
    /\ exo.target = 2
    /\ exo.exotic = {}

\* The pass of the loop that is about to run, and the sides of its reaction
\* in the direction of the flux.
PassOn == exo # Null /\ exo.pc = "loop" /\ exo.queue # <<>>

PassSign == exo.flux[exo.queue[Len(exo.queue)]]

Consumed ==
    IF PassSign = "pos" THEN exo.queue[Len(exo.queue)].reactants
    ELSE exo.queue[Len(exo.queue)].products

Produced ==
    IF PassSign = "pos" THEN exo.queue[Len(exo.queue)].products
    ELSE exo.queue[Len(exo.queue)].reactants

\* The linkage of candidate c with the current target is strictly the
\* highest among the candidates.
StrictlyHighest(c, candidates) ==
    LET scl(x) == compute_chemical_linkage_strength(CompoundCounts(x),
                                                    CompoundCounts(exo.target))
    IN  \A o \in candidates \ {c} :
            scl(o).num * scl(c).den < scl(c).num * scl(o).den

BranchingPass ==
    /\ PassOn
    /\ PassSign # "zero"
    /\ exo.target \in Produced
    /\ Cardinality(Consumed) >= 2

\* C22 as stated: when a reaction carrying flux has two or more precursor
\* candidates, the candidate of strictly highest linkage with the current
\* target becomes the next target and every other candidate that is not
\* adapted is in the exotic set, which never loses a compound.
CE_C22 ==
    [][/\ BranchingPass =>
            \A c \in Consumed :
                StrictlyHighest(c, Consumed) =>
                    /\ exo'.target = c
                    /\ (Consumed \ {c}) \ exo.adapted \subseteq exo'.exotic
       /\ exo # Null => exo.exotic \subseteq exo'.exotic]_vars

\* The part of C22 that holds: the same in the version of the worker.
Worker_C22 ==
    [][/\ BranchingPass /\ exo.version = "worker" =>
            \A c \in Consumed :
                StrictlyHighest(c, Consumed) =>
                    /\ exo'.target = c
                    /\ (Consumed \ {c}) \ exo.adapted \subseteq exo'.exotic
       /\ exo # Null => exo.exotic \subseteq exo'.exotic]_vars

\* The reactions of the pathway that carry flux.
Carrying == {r \in exo.pathway : exo.flux[r] # "zero"}

NoCofactors ==
    \A r \in Carrying :
        Cardinality(r.reactants) = 1 /\ Cardinality(r.products) = 1

\* C23 as stated: for a pathway whose reactions carrying flux all have one
\* substrate and one product, identify_exotic_cofactors returns the empty
\* set.
CE_C23 ==
    exo # Null /\ NoCofactors =>
        /\ exo.pc # "raised"
        /\ exo.pc = "returned" => exo.exotic = {}

\* The compounds a reaction makes and uses, in the direction of its flux.
Makes(r) == IF exo.flux[r] = "pos" THEN r.products ELSE r.reactants

Uses(r) == IF exo.flux[r] = "pos" THEN r.reactants ELSE r.products

\* The reactions carrying flux form one chain that ends in the product.
LinearPathway ==
    /\ \A r \in Carrying : ProductCompound \notin Uses(r)
    /\ \A r, s \in Carrying : r # s => Makes(r) \cap Makes(s) = {}
    /\ \A r, s \in Carrying : r # s => Uses(r) \cap Uses(s) = {}

\* The part of C23 that holds: the same for linear pathways.
Linear_C23 ==
    exo # Null /\ NoCofactors /\ LinearPathway =>
        /\ exo.pc # "raised"
        /\ exo.pc = "returned" => exo.exotic = {}

\* A measure of the work left: the reactions not yet seen weigh most, then
\* the queued entries of reactions already seen, then the other entries.
RECURSIVE QueueWeight(_, _, _)
QueueWeight(rxn_queue, seen, heavy) ==
    IF rxn_queue = <<>> THEN 0
    ELSE (IF Head(rxn_queue) \in seen THEN heavy ELSE 1)
             + QueueWeight(Tail(rxn_queue), seen, heavy)

Rank(e) ==
    LET n == Cardinality(e.pathway) + 1
    IN  n * n * n * n * Cardinality(e.pathway \ e.seen)
            + QueueWeight(e.queue, e.seen, n)

\* Every pass of the loop lowers the measure, so there are finitely many.
FinitelyManyPops ==
    [][PassOn /\ exo'.pc = "loop" => Rank(exo') < Rank(exo)]_vars

\* C31 as stated: the walk takes finitely many pops and ends with the
\* reaction queue empty, for every pathway and flux solution.
CE_C31 ==
    /\ FinitelyManyPops
    /\ [](exo # Null /\ exo.pc # "loop" => exo.queue = <<>>)

\* The part of C31 that holds: finitely many pops in both versions, and in
\* the version of helpers.py the walk stops only when the queue is empty.
Ends_C31 ==
    /\ FinitelyManyPops
    /\ [](exo # Null /\ exo.pc # "loop" /\ exo.version = "helpers"
             => exo.pc = "returned" /\ exo.queue = <<>>)

SwapCalled == fnIn # Null /\ fnIn.fn = "evaluate_cofactor_swap"

\* What the swaps of one design do to the model as it was passed in.
SwapOfInput(i) == swap_targets(fnIn.model.stoich, fnIn.designs[i], <<>>)

\* C32: evaluate_cofactor_swap leaves the model it is given unchanged,
\* during the call and after it, whether it returns or raises, and every
\* design is evaluated on a copy of its own: the copy is a new object, it is
\* the input model with this design's swaps and nothing else, and no later
\* design changes it.
Thm_C32 ==
    SwapCalled =>
        /\ fnOut.heap[1] = fnIn.model
        /\ \A i \in DOMAIN fnOut.results :
              LET r == fnOut.results[i]
              IN  /\ r.model # 1
                  /\ \A j \in DOMAIN fnOut.results :
                        j # i => fnOut.results[j].model # r.model
                  /\ r.evaluated = SwapOfInput(i).stoich
                  /\ r.manipulations = SwapOfInput(i).manipulations
                  /\ fnOut.heap[r.model].stoich = r.evaluated

\* C32 happens: two designs that swap the same reaction were evaluated, the
\* context of one copy did not restore the objective, and the call returned.
Wit_C32 ==
    /\ SwapCalled
    /\ fnOut.pc = "returned"
    /\ Len(fnOut.results) = 2
    /\ \A i \in 1..2 : \E m \in 1..Len(fnOut.results[i].manipulations) :
          fnOut.results[i].manipulations[m].id = "r1"
    /\ \E ref \in DOMAIN fnOut.heap : fnOut.heap[ref].objective = "biomass"

Configured == fnIn # Null /\ fnIn.fn = "configure_model" /\ fnOut # Null

\* C33 as stated: the lower bound of EX_o2_e is 0 after the configuration
\* when the flag is false and the reaction exists, and for a flag that is
\* true or null the bound is the one of the deserialized model.
CE_C33 ==
    Configured =>
        /\ fnIn.aerobic = "False" /\ "EX_o2_e" \in fnIn.model.reactions
               => fnOut.lower_bound = 0
        /\ fnIn.aerobic \in {"True", "None"}
               => fnOut.lower_bound = fnIn.model.lower_bound

\* The part of C33 that holds: the claim for the flags true and false, and
\* a null flag is treated as false.
Flag_C33 ==
    Configured =>
        /\ fnIn.aerobic \in {"False", "None"}
               /\ "EX_o2_e" \in fnIn.model.reactions
               => fnOut.lower_bound = 0
        /\ fnIn.aerobic = "True" \/ "EX_o2_e" \notin fnIn.model.reactions
               => fnOut.lower_bound = fnIn.model.lower_bound
        /\ fnOut.reactions = fnIn.model.reactions

MainRuns == main # Null

Delivery == MainRuns /\ Len(main'.worker_threads) > Len(main.worker_threads)

\* C34: a worker process runs at most one design thread at a time: no two
\* threads are alive together, and a message is delivered, and its thread
\* started, only when no thread is running and the acknowledgement of every
\* earlier delivery has been sent, in every interleaving of deliveries,
\* thread ends, ack callbacks and SIGTERM.
Thm_C34 ==
    /\ [](MainRuns => Cardinality(main.running) <= 1)
    /\ [][Delivery =>
             /\ main.running = {}
             /\ \A i \in DOMAIN main.worker_threads :
                   main.worker_threads[i] \in main.acked]_vars

\* C34 happens: a second message was delivered, with another one waiting,
\* and its thread is running.
Wit_C34 ==
    /\ MainRuns
    /\ Len(main.worker_threads) = 2
    /\ main.running = {2}
    /\ main.ready > 0

\* C36 as stated: when connection.close() is called, every thread that was
\* running when SIGTERM arrived has ended and the acknowledgement it
\* registered has been run, none is still waiting with the connection.
CE_C36 ==
    [][MainRuns /\ main.pc = "joining" /\ main'.pc = "closed" =>
          /\ main.at_sigterm \cap main.running = {}
          /\ \A i \in DOMAIN main.callbacks :
                main.callbacks[i] \notin main.at_sigterm]_vars

\* The part of C36 that holds: the threads are waited for before the
\* connection is closed, and an acknowledgement registered before
\* start_consuming returned can still be sent.
Waited_C36 ==
    MainRuns /\ main.pc = "closed" =>
        /\ main.running = {}
        /\ main.requeued \cap main.acked = {}

\* C35 as stated: every call of a @task-wrapped function eventually
\* finishes, by returning or by raising, whatever the size of the value the
\* wrapped function returns.
CE_C35 ==
    \A t \in Tags : thread[t].child = "running" ~> thread[t].child = "none"

\* The part of C35 that holds: the call finishes once the child has exited,
\* which it does when the function raises or its value fits the pipe.
Fits_C35 ==
    \A t \in Tags :
        /\ thread[t].child \in {"exit_ok", "exit_err"}
               ~> thread[t].child = "none"
        /\ thread[t].child = "running"
               ~> thread[t].child \in {"none", "blocked"}

RequestOver(j) == request[j] \in {"submitted", "aborted"}

\* C37 as stated: when the POST request of a job is over and has committed
\* the record, the same request has submitted the job's message to the
\* queue, whatever the user and organism lookups did.
CE_C37 ==
    \A j \in Jobs :
        RequestOver(j) /\ status[j] # "ABSENT" =>
            request[j] = "submitted" /\ queue[j] # "none"

\* The part of C37 that holds: a request whose lookups both succeed submits
\* the message of the record it committed, and no message is submitted
\* without a committed record.
Submitted_C37 ==
    \A j \in Jobs :
        /\ request[j] = "submitted" => queue[j] # "none"
        /\ queue[j] # "none" => request[j] = "submitted" /\ status[j] # "ABSENT"

WorkerRows ==
    /\ DiffFvaEvaluated
    /\ fnIn.version = "worker"
    /\ fnOut.raised = "none"

\* C38 as stated: in the rows evaluate_diff_fva of the worker returns, the
\* keys of a row's targets are exactly the reactions of that row's own
\* manipulations and knockouts.
CE_C38 ==
    WorkerRows =>
        \A i \in DOMAIN fnOut.rows :
            fnOut.rows[i].targets = get_target_data(fnIn.designs[i])

\* The part of C38 that holds: the targets of a row hold the reactions of
\* the row's own manipulations and knockouts, together with those of the
\* other surface points evaluated, the same keys in every row.
Shared_C38 ==
    WorkerRows =>
        \A i \in DOMAIN fnOut.rows :
            /\ get_target_data(fnIn.designs[i]) \subseteq fnOut.rows[i].targets
            /\ fnOut.rows[i].targets =
                  UNION {get_target_data(fnIn.designs[k]) :
                            k \in DOMAIN fnOut.rows}

\* The rows of an aggregated result, whatever the bucket.
OutRows ==
    IF aggOut.by = "_collect_results" THEN Range(aggOut.out.container)
    ELSE Range(aggOut.out.diff_fva) \cup Range(aggOut.out.opt_gene)
             \cup Range(aggOut.out.cofactor_swap)

\* The ids used for reactions and for metabolites.
ReactionIds == {ProductReactionId} \cup Pathways \cup {p + 1 : p \in Pathways}

MetaboliteIds == {2, 9} \cup UNION {Reaction(r).metabolites : r \in ReactionIds}

\* The metabolites of the reaction with the given id.
MetabolitesOf(id) == ReactionById(aggIn, id).metabolites

\* C39: in every aggregated result the rows hold ids only, every reaction id
\* of a row is a key of the reactions table, every exotic cofactor of a row
\* is a key of the metabolites table, every key of the reactions table is
\* referred to by a row, and every key of the metabolites table is an exotic
\* cofactor of a row or a metabolite of a heterologous reaction of a row.
Thm_C39 ==
    aggOut # Null /\ ~AggFailed =>
        /\ \A r \in OutRows :
              /\ Range(r.knockouts) \subseteq ReactionIds
              /\ Range(r.heterologous_reactions) \subseteq ReactionIds
              /\ Range(r.synthetic_reactions) \subseteq ReactionIds
              /\ Range(r.exotic_cofactors) \subseteq MetaboliteIds
              /\ Range(r.heterologous_reactions) \cup Range(r.synthetic_reactions)
                    \subseteq DOMAIN aggOut.out.reactions
              /\ Range(r.exotic_cofactors) \subseteq DOMAIN aggOut.out.metabolites
        /\ \A k \in DOMAIN aggOut.out.reactions :
              \E r \in OutRows :
                 k \in Range(r.heterologous_reactions)
                          \cup Range(r.synthetic_reactions)
        /\ \A k \in DOMAIN aggOut.out.metabolites :
              \E r \in OutRows :
                 \/ k \in Range(r.exotic_cofactors)
                 \/ \E h \in Range(r.heterologous_reactions) :
                       k \in MetabolitesOf(h)

\* C39 happens: two rows of different pathways were aggregated, one of them
\* with an exotic cofactor that is no metabolite of the pathway's reactions.
Wit_C39 ==
    /\ aggOut # Null
    /\ ~AggFailed
    /\ Cardinality(OutRows) = 2
    /\ \E r \in OutRows : r.exotic_cofactors = <<9>>
    /\ 9 \in DOMAIN aggOut.out.metabolites
    /\ Cardinality(DOMAIN aggOut.out.reactions) = 4

\* The row endpoint has answered for a job the caller can see.
RowAnswered ==
    /\ response # Null
    /\ response.endpoint = "row"
    /\ response.job_id \in query(table, response.prj)

\* The rows with the id asked for in the three buckets of a result.
RowsWithId(res, row_id) ==
    SelectSeq(res.diff_fva \o res.opt_gene \o res.cofactor_swap,
              LAMBDA x : x.id = row_id)

\* C40 as stated: for a visible job in any status and for any row id the row
\* endpoint raises no unhandled error; it answers 404 when the result has no
\* row with the id, also when there is no result yet, and otherwise the
\* export of the row with that id.
CE_C40 ==
    RowAnswered =>
        LET job == table[response.job_id]
        IN  /\ response.out.code # 500
            /\ IF job.result = Null
                  \/ RowsWithId(job.result, response.row_id) = <<>>
               THEN response.out.code = 404
               ELSE /\ response.out.code \in {200, 202}
                    /\ response.out.body.csv.id = response.row_id

\* The part of C40 that holds: the same for a job that has a result, and
\* for a job without a result the request fails with TypeError.
Result_C40 ==
    RowAnswered =>
        LET job == table[response.job_id]
        IN  IF job.result = Null
            THEN response.out = [code |-> 500, body |-> [error |-> "TypeError"]]
            ELSE IF RowsWithId(job.result, response.row_id) = <<>>
            THEN response.out.code = 404
            ELSE /\ response.out.code \in {200, 202}
                 /\ response.out.body.csv.id = response.row_id

====
